---- MODULE Spec2Model ----
(***************************************************************************)
(* Model of the BibKat integration core: the renewal rule store            *)
(* (renewal_rules.py), the loan listing parser, merge and renewal engine   *)
(* of the API client (api.py) and the multi-account fetch cycle            *)
(* (coordinator.py).                                                       *)
(*                                                                         *)
(* Dates are day ordinals (day 0 = 2025-01-01); an optional value is the   *)
(* empty tuple (None) or a one-element tuple.                              *)
(***************************************************************************)
EXTENDS Integers, Sequences, FiniteSets, TLC

VARIABLES
    now,        \* datetime.now(), in hours since 2025-01-01 00:00
    rules,      \* RenewalRulesManager._rules: library_url -> rule record
    storage,    \* the file bibkat_renewal_rules.json
    fresh,      \* _rules of a newly constructed RenewalRulesManager, or None
    lastObs,    \* history: per library the last observed <<due, renewal-open>>
    saved,      \* history: TRUE iff the last _save_rules wrote the file
    mainPage,   \* account id -> the site's account page (reader/) for its login
    familyPage, \* account id -> the site's family page (reader/family/)
    reservationPages, \* account id -> what the two pages show of reservations
    parsed,     \* the last result of _get_media_from_page, or None
    apis,       \* coordinator.apis: account id -> the state of its BibKatAPI
    useBrowser, \* the option use_browser
    hasPlaywright, \* browser_service.HAS_PLAYWRIGHT
    fetchLog,   \* history: the last get_borrowed_media call, or None
    renewLog,   \* history: the last renew_media call, or None
    reservedLog, \* history: the last get_reserved_media call, or None
    dateLog,    \* history: the last parse_german_date call, or None
    accounts,   \* account_manager.get_accounts_for_library(library_url)
    data,       \* coordinator.data: the output of the last cycle, or None
    last_renewal_date_fetch, \* coordinator._last_renewal_date_fetch
    cycleLog,   \* history: the requests of the last cycle, or None
    reservations_fetched, \* coordinator._reservations_fetched
    shared_reservations,  \* coordinator._shared_reservations
    renewAllLog, \* history: the last async_renew_all_media call, or None
    renewOneLog, \* history: the last renew_media service call, or None
    sessions,   \* BibKatAuthHelper._sessions of the clients' helpers, by account id
    created,    \* the number of aiohttp sessions created; they are 1..created
    closed,     \* the sessions that were closed
    held,       \* account id -> BibKatAPI._session, None or a session
    authLog     \* history: the last call of the auth helper, or None

rulesVars == <<rules, storage, fresh, lastObs, saved>>
siteVars == <<mainPage, familyPage, reservationPages>>
apiVars == <<apis, useBrowser, hasPlaywright, fetchLog, renewLog,
            reservedLog, dateLog>>
coordVars == <<accounts, data, last_renewal_date_fetch, cycleLog,
               reservations_fetched, shared_reservations, renewAllLog,
               renewOneLog>>
authVars == <<sessions, created, closed, held, authLog>>
vars == <<now, rulesVars, siteVars, parsed, apiVars, coordVars, authVars>>

\* date.today() as a day ordinal
today == now \div 24

None == <<>>
Some(x) == <<x>>
Val(o) == o[1]

(***************************************************************************)
(* Calendar: datetime.date as a day ordinal, date.isoformat() and          *)
(* date.fromisoformat() as conversions to and from <<year, month, day>>.   *)
(***************************************************************************)
IsLeap(y) == (y % 4 = 0 /\ y % 100 # 0) \/ y % 400 = 0

DaysInYear(y) == IF IsLeap(y) THEN 366 ELSE 365

DaysInMonth(y, m) ==
    IF m = 2 THEN (IF IsLeap(y) THEN 29 ELSE 28)
    ELSE IF m \in {4, 6, 9, 11} THEN 30 ELSE 31

RECURSIVE DaysBeforeYear(_)
DaysBeforeYear(y) == IF y <= 2025 THEN 0 ELSE DaysBeforeYear(y - 1) + DaysInYear(y - 1)

RECURSIVE DaysBeforeMonth(_, _)
DaysBeforeMonth(y, m) == IF m <= 1 THEN 0 ELSE DaysBeforeMonth(y, m - 1) + DaysInMonth(y, m - 1)

RECURSIVE YearOf(_, _)
YearOf(ord, y) == IF ord < DaysInYear(y) THEN <<y, ord>> ELSE YearOf(ord - DaysInYear(y), y + 1)

RECURSIVE MonthOf(_, _, _)
MonthOf(y, rest, m) ==
    IF rest < DaysInMonth(y, m) THEN <<m, rest + 1>> ELSE MonthOf(y, rest - DaysInMonth(y, m), m + 1)

\* date.isoformat(): the calendar fields of a day ordinal
isoformat(ord) ==
    LET yr == YearOf(ord, 2025)
        md == MonthOf(yr[1], yr[2], 1)
    IN  <<yr[1], md[1], md[2]>>

\* date.fromisoformat(): None stands for the ValueError of an invalid date
fromisoformat(iso) ==
    IF /\ iso[1] >= 2025
       /\ iso[2] \in 1..12
       /\ iso[3] >= 1 /\ iso[3] <= DaysInMonth(iso[1], iso[2])
    THEN Some(DaysBeforeYear(iso[1]) + DaysBeforeMonth(iso[1], iso[2]) + iso[3] - 1)
    ELSE None

(***************************************************************************)
(* json.dump / json.load of an int: sign and decimal digits.               *)
(***************************************************************************)
RECURSIVE Digits(_)
Digits(n) == IF n < 10 THEN <<n>> ELSE Append(Digits(n \div 10), n % 10)

json_dump_int(n) == IF n < 0 THEN [neg |-> TRUE, digits |-> Digits(0 - n)]
                    ELSE [neg |-> FALSE, digits |-> Digits(n)]

RECURSIVE DigitsValue(_)
DigitsValue(ds) ==
    IF Len(ds) = 0 THEN 0
    ELSE 10 * DigitsValue(SubSeq(ds, 1, Len(ds) - 1)) + ds[Len(ds)]

json_load_int(j) == IF j.neg THEN 0 - DigitsValue(j.digits) ELSE DigitsValue(j.digits)

(***************************************************************************)
(* RenewalRulesManager (renewal_rules.py)                                  *)
(***************************************************************************)
Libs == {"libA", "libB"}

FirstDay == 200
MaxDay == 201
Days == FirstDay..MaxDay

\* due dates and renewal-open dates that are observed
ObsDue == {215}
ObsOffsets == {10, 0, -1}
PredictDue == {205, 210, 215, 230}

EmptyRules == [l \in {} |-> None]

NoFile == [kind |-> "absent", data |-> EmptyRules]
CorruptFile == [kind |-> "corrupt", data |-> EmptyRules]

\* a _save_rules that writes one library only
save_rules_mut(rs) ==
    LET keep == IF DOMAIN rs = {} THEN {} ELSE {CHOOSE l \in DOMAIN rs : TRUE}
    IN [kind |-> "json",
        data |-> [l \in keep |->
                    [renewal_offset_days |-> json_dump_int(rs[l].renewal_offset_days),
                     last_updated |-> isoformat(rs[l].last_updated)]]]

\* _save_rules, the file it writes: every rule with its date in ISO format
save_rules(rs) ==
    [kind |-> "json",
     data |-> [l \in DOMAIN rs |->
                 [renewal_offset_days |-> json_dump_int(rs[l].renewal_offset_days),
                  last_updated |-> isoformat(rs[l].last_updated)]]]

\* _load_rules: a missing file gives no rules; an unreadable file or an
\* invalid date raises, and the handler resets _rules to {}
load_rules(file) ==
    IF file.kind # "json" THEN EmptyRules
    ELSE IF \E l \in DOMAIN file.data : fromisoformat(file.data[l].last_updated) = None
         THEN EmptyRules
         ELSE [l \in DOMAIN file.data |->
                 [renewal_offset_days |-> json_load_int(file.data[l].renewal_offset_days),
                  last_updated |-> Val(fromisoformat(file.data[l].last_updated))]]

get_renewal_offset_days(rs, library_url) ==
    IF library_url \in DOMAIN rs THEN Some(rs[library_url].renewal_offset_days) ELSE None

calculate_renewal_date_mut(rs, library_url, due_date) ==
    LET offset_days == get_renewal_offset_days(rs, library_url)
    IN  IF offset_days # None THEN Some(due_date + Val(offset_days)) ELSE None

calculate_renewal_date(rs, library_url, due_date) ==
    LET offset_days == get_renewal_offset_days(rs, library_url)
    IN  IF offset_days # None THEN Some(due_date - Val(offset_days)) ELSE None

calculate_offset_from_dates(due_date, renewal_date) == due_date - renewal_date

(***************************************************************************)
(* The site's pages. A page is the sequence of its h4 headers and item     *)
(* blocks in document order; the family page holds them inside the         *)
(* reader-listing-lendings div, when that div is present.                  *)
(***************************************************************************)
\* status 200 or another status; "error" stands for a raised client error
HttpOutcomes == {"ok", "status", "error"}

EmptyPage == [listing |-> TRUE, elems |-> <<>>]

\* <h4 class="reader-content-title">: konto is the N of "Konto Nr. N", or
\* None when the header text does not match
Header(konto) == [tag |-> "h4", konto |-> konto]

\* the text of an item's status element
NameDate(day, month) == [fmt |-> "name", day |-> day, month |-> month, year |-> 0]
NumericDate(day, month, year) == [fmt |-> "numeric", day |-> day, month |-> month, year |-> year]
OtherText == [fmt |-> "other", day |-> 0, month |-> 0, year |-> 0]

\* <div class="item">: id 0 = no id attribute, status None = no status element
\* and link = the title carries the href of the detail page
ItemBlock(id, title, link, msg, status, renew) ==
    [tag |-> "item", id |-> id, title |-> title, link |-> link, msg |-> msg,
     status |-> status, renew |-> renew]

ValidDate(y, m, d) == y >= 2025 /\ m \in 1..12 /\ d >= 1 /\ d <= DaysInMonth(y, m)

\* date(y, m, d) as a day ordinal
Date(y, m, d) == DaysBeforeYear(y) + DaysBeforeMonth(y, m) + d - 1

\* parse_german_date in the year current_year: "<day>. <Month>" takes the
\* current year, or the next one when that date lies more than 60 days
\* back; "dd.mm.yyyy" is taken as written; a ValueError of date() is caught
\* and gives None
ParseInYear(text, current_year) ==
    IF text.fmt = "name" /\ text.month \in 1..12
    THEN IF ~ValidDate(current_year, text.month, text.day) THEN None
         ELSE LET parsed_date == Date(current_year, text.month, text.day)
              IN  IF parsed_date < today /\ today - parsed_date > 60
                  THEN IF ValidDate(current_year + 1, text.month, text.day)
                       THEN Some(Date(current_year + 1, text.month, text.day))
                       ELSE None
                  ELSE Some(parsed_date)
    ELSE IF text.fmt = "numeric"
    THEN IF ValidDate(text.year, text.month, text.day)
         THEN Some(Date(text.year, text.month, text.day))
         ELSE None
    ELSE None

parse_german_date(text) == ParseInYear(text, isoformat(today)[1])

Max(a, b) == IF a >= b THEN a ELSE b

\* _calculate_days_remaining for the parsed date:
\* <<days_remaining, due_date_iso>>
DaysUntil(parsed_date) ==
    IF parsed_date # None
    THEN <<Max(0, Val(parsed_date) - today), parsed_date>>
    ELSE <<0, None>>

calculate_days_remaining(due_text) == DaysUntil(parse_german_date(due_text))

\* the library of the API client (base_url)
ApiLib == "libA"

\* the synthesized id of an item without id attribute (hash of title,
\* author and due-date text)
GenId(status) ==
    IF status = None THEN 1000
    ELSE 1001 + Val(status).day + 32 * Val(status).month + 400 * (Val(status).year % 5)

\* the media dict _extract_media_info builds: dr is the answer of
\* _calculate_days_remaining, renewal_date the date the stored rule gives
MediaDict(item, dr, renewal_date) ==
    Some([media_id |-> IF item.id # 0 THEN item.id ELSE GenId(item.status),
          due_date |-> item.status # None,
          due_date_iso |-> dr[2],
          days_remaining |-> dr[1],
          renewable |-> item.renew,
          detail_url |-> item.link,
          renewal_date_iso |-> renewal_date,
          is_renewable_now |->
              \/ item.renew
              \/ (renewal_date # None /\ today >= Val(renewal_date)),
          account |-> "",
          owner_number |-> None,
          found_on |-> <<>>,
          account_id |-> None,
          is_configured |-> TRUE])

\* "Calculate renewal date using rules if available"
WithRuleDate(item, dr, rs) ==
    MediaDict(item, dr,
              IF dr[2] # None THEN calculate_renewal_date(rs, ApiLib, Val(dr[2])) ELSE None)

\* _extract_media_info: the media dict of an item block, None without title
extract_media_info(item, rs) ==
    IF ~item.title THEN None
    ELSE WithRuleDate(item,
                      IF item.status # None THEN calculate_days_remaining(Val(item.status))
                      ELSE <<0, None>>,
                      rs)

\* the family branch of _get_media_from_page for one item block: media_info
\* is kept when an account header came before, the block is no message
\* variant and it has a due date
FamilyItem(e, cur, media_info) ==
    IF cur # None /\ ~e.msg /\ media_info # None /\ Val(media_info).due_date
    THEN <<[Val(media_info) EXCEPT !.account = "family", !.owner_number = cur]>>
    ELSE <<>>

\* the family branch of _get_media_from_page: the walk over the headers and
\* item blocks of the listing, current_account_number being cur
RECURSIVE FamilyWalk_mut(_, _, _)
FamilyWalk_mut(elems, cur, rs) ==
    IF elems = <<>> THEN <<>>
    ELSE IF Head(elems).tag = "h4"
    THEN FamilyWalk_mut(Tail(elems), Head(elems).konto, rs)
    ELSE FamilyItem(Head(elems), cur, extract_media_info(Head(elems), rs))
         \o FamilyWalk_mut(Tail(elems), cur, rs)

RECURSIVE FamilyWalk(_, _, _)
FamilyWalk(elems, cur, rs) ==
    IF elems = <<>> THEN <<>>
    ELSE IF Head(elems).tag = "h4"
    THEN FamilyWalk(Tail(elems),
                    IF Head(elems).konto # None THEN Head(elems).konto ELSE cur, rs)
    ELSE FamilyItem(Head(elems), cur, extract_media_info(Head(elems), rs))
         \o FamilyWalk(Tail(elems), cur, rs)

\* the main branch of _get_media_from_page for one element of the page
MainItem(e, media_info) ==
    IF e.tag = "item" /\ ~e.msg /\ media_info # None /\ Val(media_info).due_date
    THEN <<[Val(media_info) EXCEPT !.account = "main"]>>
    ELSE <<>>

\* the main branch of _get_media_from_page: every item block of the page
RECURSIVE MainWalk(_, _)
MainWalk(elems, rs) ==
    IF elems = <<>> THEN <<>>
    ELSE MainItem(Head(elems),
                  IF Head(elems).tag = "item" THEN extract_media_info(Head(elems), rs)
                  ELSE None)
         \o MainWalk(Tail(elems), rs)

\* _get_media_from_page(url, account_type) for a response with status 200
\* (ok) or another status
get_media_from_page(page, account_type, http, rs) ==
    IF http # "ok" THEN <<>>
    ELSE IF account_type = "family"
         THEN IF page.listing THEN FamilyWalk(page.elems, None, rs) ELSE <<>>
         ELSE MainWalk(page.elems, rs)

(***************************************************************************)
(* BibKatAPI (api.py): login state, get_borrowed_media, renew_media        *)
(***************************************************************************)
NoApis == [a \in {} |-> None]

\* BibKatAPI.__init__: logged_in_internal is self._logged_in, session is
\* "self._session is set", last_media_list is self._last_media_list
NewApi ==
    [logged_in |-> FALSE, logged_in_internal |-> FALSE, session |-> FALSE,
     last_media_list |-> <<>>, last_full_detail_fetch |-> None]

\* the outcomes of _login: the auth helper raises (auth_failed), or it
\* returns a session and the GET of the login page for the CSRF token
\* then succeeds (ok) or raises (csrf_error)
LoginOutcomes == {"ok", "auth_failed", "csrf_error"}

login(api, outcome) ==
    IF outcome = "auth_failed" THEN [api |-> api, ok |-> FALSE]
    ELSE [api |-> [api EXCEPT !.session = TRUE, !.logged_in_internal = TRUE,
                              !.logged_in = TRUE],
          ok |-> outcome = "ok"]

\* _ensure_logged_in: probe_ok is the answer of async_validate_session
ensure_logged_in(api, probe_ok, outcome) ==
    IF api.logged_in_internal /\ api.session
    THEN IF probe_ok THEN [api |-> api, ok |-> TRUE]
         ELSE login([api EXCEPT !.logged_in_internal = FALSE], outcome)
    ELSE login(api, outcome)

\* the first loop of get_borrowed_media: every main item is appended
MergeMain(main_media) ==
    [i \in 1..Len(main_media) |-> [main_media[i] EXCEPT !.found_on = <<"main">>]]

\* media_by_id[media_id]: the position in all_media of the dict stored
\* last under the id, 0 when the id is not a key
ById(all_media, media_id) ==
    LET is == {i \in 1..Len(all_media) : all_media[i].media_id = media_id}
    IN  IF is = {} THEN 0 ELSE CHOOSE i \in is : \A j \in is : j <= i

\* a family loop that overwrites found_on
RECURSIVE MergeFamily_mut(_, _)
MergeFamily_mut(all_media, family_media) ==
    IF family_media = <<>> THEN all_media
    ELSE LET media == Head(family_media)
             at == ById(all_media, media.media_id)
         IN  IF at # 0
             THEN MergeFamily_mut([all_media EXCEPT ![at].found_on = <<"family">>],
                                  Tail(family_media))
             ELSE MergeFamily_mut(Append(all_media, [media EXCEPT !.found_on = <<"family">>]),
                              Tail(family_media))

\* the second loop of get_borrowed_media over the family items
RECURSIVE MergeFamily(_, _)
MergeFamily(all_media, family_media) ==
    IF family_media = <<>> THEN all_media
    ELSE LET media == Head(family_media)
             at == ById(all_media, media.media_id)
         IN  IF at # 0
             THEN MergeFamily([all_media EXCEPT ![at].found_on = Append(@, "family")],
                              Tail(family_media))
             ELSE MergeFamily(Append(all_media, [media EXCEPT !.found_on = <<"family">>]),
                              Tail(family_media))

DETAIL_FETCH_INTERVAL == 24

\* the answers of a detail page: not reachable, no renewal sentence, or
\* "kann ab dem <date> online verlaengert werden"
NoDetail == [kind |-> "unreachable", text |-> OtherText]
DetailWithout == [kind |-> "nodate", text |-> OtherText]
DetailFrom(text) == [kind |-> "date", text |-> text]

\* the dict _fetch_media_details returns for the date parsed from the page
Details(parsed_date) ==
    [renewal_date_iso |-> parsed_date,
     is_renewable_now |-> parsed_date # None /\ today >= Val(parsed_date)]

\* _fetch_media_details: the dict that media.update(details) applies
fetch_media_details(resp) ==
    Details(IF resp.kind = "date" THEN parse_german_date(resp.text) ELSE None)

\* should_fetch_all_details
ShouldFetchAllDetails_mut(api) == TRUE

ShouldFetchAllDetails(api) ==
    \/ api.last_full_detail_fetch = None
    \/ now - Val(api.last_full_detail_fetch) >= DETAIL_FETCH_INTERVAL

\* items_to_fetch_details, as positions of all_media
ItemsToFetchDetails(all_media, should_fetch_all_details) ==
    {i \in 1..Len(all_media) :
        /\ should_fetch_all_details
        /\ all_media[i].renewable /\ all_media[i].detail_url}

\* media.update(details)
UpdateMedia(media, details) ==
    [media EXCEPT !.renewal_date_iso = details.renewal_date_iso,
                  !.is_renewable_now = details.is_renewable_now]

\* the loop over items_to_fetch_details
WithDetails(all_media, to_fetch, answers) ==
    [i \in 1..Len(all_media) |->
        IF i \in to_fetch
        THEN UpdateMedia(all_media[i], fetch_media_details(answers[all_media[i].media_id]))
        ELSE all_media[i]]

\* the end of get_borrowed_media: the list is stored and returned
StoreMediaList(api, all_media, to_fetch) ==
    [api |-> [api EXCEPT
                 !.last_media_list = all_media,
                 !.last_full_detail_fetch =
                     IF ShouldFetchAllDetails(api) THEN Some(now) ELSE @],
     media |-> all_media,
     detail_requests |-> [i \in 1..Len(all_media) |-> i \in to_fetch]]

FetchDetails(api, all_media, to_fetch, answers) ==
    StoreMediaList(api, WithDetails(all_media, to_fetch, answers), to_fetch)

\* get_borrowed_media after the merge of the two pages
AfterMerge(api, all_media, answers) ==
    FetchDetails(api, all_media,
                 ItemsToFetchDetails(all_media, ShouldFetchAllDetails(api)), answers)

\* get_borrowed_media after _ensure_logged_in
AfterLogin(li, main, family, env, rs) ==
    IF ~li.ok
    THEN [api |-> li.api, media |-> <<>>, detail_requests |-> <<>>]
    ELSE AfterMerge(li.api,
                    MergeFamily(
                        MergeMain(IF env.main_http = "error" THEN <<>>
                                  ELSE get_media_from_page(main, "main", env.main_http, rs)),
                        IF env.family_http = "error" THEN <<>>
                        ELSE get_media_from_page(family, "family", env.family_http, rs)),
                    env.details)

\* get_borrowed_media. env: probe and login (the login outcomes),
\* main_http and family_http (the page fetches), details (the detail page
\* of each media id). Gives the client afterwards, the returned list and
\* the positions whose detail page was requested.
get_borrowed_media(api, main, family, env, rs) ==
    AfterLogin(ensure_logged_in(api, env.probe, env.login), main, family, env, rs)

\* the answers of the renewal endpoint api/renew/: the request raises
\* (error), a status other than 200, a body that is no JSON, or the JSON
\* envelope with meta.success and, in data.actions, an action with
\* function "renew" and method "POST" or none
HttpError == [kind |-> "error", success |-> FALSE, action |-> FALSE]
HttpStatus == [kind |-> "status", success |-> FALSE, action |-> FALSE]
HttpNotJson == [kind |-> "notjson", success |-> FALSE, action |-> FALSE]
Envelope(success, action) == [kind |-> "json", success |-> success, action |-> action]

RenewResponses ==
    {HttpError, HttpStatus, HttpNotJson} \cup {Envelope(s, a) : s \in BOOLEAN, a \in BOOLEAN}

Request(method, payload) == [method |-> method, payload |-> payload]

\* the dict a renewal returns
Result(success, message, renewal_date_iso, source) ==
    [success |-> success, message |-> message,
     renewal_date_iso |-> renewal_date_iso, source |-> source]

Failed(message) == Result(FALSE, message, None, "")

\* step 2 of _renew_single_media: the result of the confirming POST
PostResult_mut(post) ==
    IF post.kind = "json"
    THEN IF post.success THEN Result(TRUE, "Medium erfolgreich verlaengert", None, "")
         ELSE Failed("Verlaengerung fehlgeschlagen")
    ELSE IF post.kind = "status" THEN Result(TRUE, "Medium erfolgreich verlaengert", None, "")
    ELSE Failed("Fehler bei der Verlaengerung")

PostResult(post) ==
    IF post.kind = "json"
    THEN IF post.success THEN Result(TRUE, "Medium erfolgreich verlaengert", None, "")
         ELSE Failed("Verlaengerung fehlgeschlagen")
    ELSE IF post.kind = "status" THEN Failed("Verlaengerung fehlgeschlagen (Status)")
    ELSE Failed("Fehler bei der Verlaengerung")

\* _renew_single_media: the GET of the renewal dialog, then the POST.
\* Without a session the GET raises before anything is sent.
renew_single_media(api, media_id, get, post) ==
    IF ~api.session
    THEN [result |-> Failed("Fehler bei der Verlaengerung"), requests |-> <<>>]
    ELSE IF get.kind = "status"
    THEN [result |-> Failed("Fehler beim Abrufen des Verlaengerungsdialogs"),
          requests |-> <<Request("GET", media_id)>>]
    ELSE IF get.kind # "json"
    THEN [result |-> Failed("Fehler bei der Verlaengerung"),
          requests |-> <<Request("GET", media_id)>>]
    ELSE IF ~get.success
    THEN [result |-> Failed("Verlaengerung fehlgeschlagen"),
          requests |-> <<Request("GET", media_id)>>]
    ELSE IF ~get.action
    THEN [result |-> Failed("Keine Verlaengerungsaktion gefunden"),
          requests |-> <<Request("GET", media_id)>>]
    ELSE [result |-> PostResult(post),
          requests |-> <<Request("GET", media_id), Request("POST", media_id)>>]

\* the dict BrowserService.extract_renewal_date returns: success, the
\* renewal_date_iso read from the dialog and the renewal_offset_days it
\* computed when it also found the due date
BrowserResult(success, renewal_date_iso, renewal_offset_days) ==
    [success |-> success, renewal_date_iso |-> renewal_date_iso,
     renewal_offset_days |-> renewal_offset_days]

\* the first dict of the list with the media id and a due_date_iso
FirstDue(media_list, media_id) ==
    LET is == {i \in 1..Len(media_list) :
                  media_list[i].media_id = media_id /\ media_list[i].due_date_iso # None}
    IN  IF is = {} THEN None
        ELSE Some(Val(media_list[CHOOSE i \in is : \A j \in is : i <= j].due_date_iso))

FALLBACK_DAYS == 6

\* methods 2 and 3 of _extract_renewal_date for the due date found: the
\* date of the stored rule, then the fallback of 6 days before the due date
RuleThenFallback(due, renewal_date) ==
    IF due # None /\ renewal_date # None
    THEN Result(TRUE, "", renewal_date, "rules")
    ELSE IF due # None
    THEN Result(TRUE, "", Some(Val(due) - FALLBACK_DAYS), "fallback")
    ELSE Failed("Verlaengerungsdatum konnte nicht ermittelt werden")

RuleForDue(due, rs) ==
    RuleThenFallback(due, IF due # None THEN calculate_renewal_date(rs, ApiLib, Val(due))
                          ELSE None)

RuleOrFallback(api, media_id, rs) == RuleForDue(FirstDue(api.last_media_list, media_id), rs)

\* method 1 of _extract_renewal_date is taken: browser mode enabled,
\* Playwright installed and the probe delivered a date
BrowserDelivers(use_browser, has_playwright, browser) ==
    use_browser /\ has_playwright /\ browser.success /\ browser.renewal_date_iso # None

\* _extract_renewal_date: the result, and the offset handed to
\* update_rules (None when no rule is learned)
extract_renewal_date_mut(api, media_id, browser, rs, use_browser, has_playwright) ==
    IF BrowserDelivers(use_browser, has_playwright, browser)
       /\ RuleOrFallback(api, media_id, rs).source # "rules"
    THEN [result |-> Result(TRUE, "", browser.renewal_date_iso, "browser"),
          learned |-> browser.renewal_offset_days]
    ELSE [result |-> RuleOrFallback(api, media_id, rs), learned |-> None]

extract_renewal_date(api, media_id, browser, rs, use_browser, has_playwright) ==
    IF BrowserDelivers(use_browser, has_playwright, browser)
    THEN [result |-> Result(TRUE, "", browser.renewal_date_iso, "browser"),
          learned |-> browser.renewal_offset_days]
    ELSE [result |-> RuleOrFallback(api, media_id, rs), learned |-> None]

\* the first dict of _last_media_list with the media id, or None
FindMedia(media_list, media_id) ==
    LET is == {i \in 1..Len(media_list) : media_list[i].media_id = media_id}
    IN  IF is = {} THEN None
        ELSE Some(media_list[CHOOSE i \in is : \A j \in is : i <= j])

\* renew_media returns what _renew_single_media returns
Renewed(attempt) ==
    [result |-> attempt.result, requests |-> attempt.requests, learned |-> None]

\* "Convert the result to match expected format"
NotYetRenewable(date_result) ==
    [result |-> [date_result.result EXCEPT
                    !.success = FALSE,
                    !.message = IF date_result.result.success
                                THEN "Medium kann erst ab dem Datum verlaengert werden"
                                ELSE @],
     requests |-> <<>>,
     learned |-> date_result.learned]

\* renew_media for the dict found: the renewal when it is renewable now,
\* else the extraction of the renewal date
RenewOrExtract(media_info, api, media_id, env, rs, use_browser, has_playwright) ==
    IF media_info = None
    THEN [result |-> Failed("Medium nicht gefunden"), requests |-> <<>>, learned |-> None]
    ELSE IF Val(media_info).is_renewable_now
    THEN Renewed(renew_single_media(api, media_id, env.get, env.post))
    ELSE NotYetRenewable(extract_renewal_date(api, media_id, env.browser, rs,
                                              use_browser, has_playwright))

\* a dict that counts as renewable now when it has a due date
Eager(media_info) ==
    IF media_info = None THEN None
    ELSE Some([Val(media_info) EXCEPT !.is_renewable_now = @ \/ Val(media_info).due_date])

\* renew_media(media_id): env holds the answers of the site (get, post)
\* and of the browser probe. Gives the returned dict, the requests sent to
\* the renewal endpoint and the offset learned from the browser.
renew_media_mut(api, media_id, env, rs, use_browser, has_playwright) ==
    RenewOrExtract(Eager(FindMedia(api.last_media_list, media_id)), api, media_id, env, rs,
                   use_browser, has_playwright)

renew_media(api, media_id, env, rs, use_browser, has_playwright) ==
    RenewOrExtract(FindMedia(api.last_media_list, media_id), api, media_id, env, rs,
                   use_browser, has_playwright)

\* the _rules dict after update_rules
RulesWith(rs, library_url, renewal_offset_days) ==
    [l \in DOMAIN rs \cup {library_url} |->
        IF l = library_url
        THEN [renewal_offset_days |-> renewal_offset_days, last_updated |-> today]
        ELSE rs[l]]

\* the outcomes of open(path, 'w') + json.dump inside _save_rules
SaveOutcomes == {"written", "open_failed", "write_failed"}

FileAfterSave(rs, outcome) ==
    IF outcome = "written" THEN save_rules(rs)
    ELSE IF outcome = "open_failed" THEN storage
    ELSE CorruptFile

\* update_rules(library_url, renewal_offset_days), _save_rules included
update_rules(library_url, renewal_offset_days, outcome) ==
    /\ rules' = RulesWith(rules, library_url, renewal_offset_days)
    /\ storage' = FileAfterSave(RulesWith(rules, library_url, renewal_offset_days), outcome)
    /\ saved' = (outcome = "written")
    /\ fresh' = None

\* a renewal-open date is observed for a loan with a known due date, and
\* the offset between the two is stored as the library's rule
Observe ==
    \E lib \in Libs, due \in ObsDue, off \in ObsOffsets, outcome \in SaveOutcomes :
        /\ update_rules(lib, calculate_offset_from_dates(due, due - off), outcome)
        /\ lastObs' = [lastObs EXCEPT ![lib] = Some(<<due, due - off>>)]
        /\ UNCHANGED <<now, siteVars, parsed, apiVars, coordVars, authVars>>

\* RenewalRulesManager(hass): a new manager loads the file
NewManager ==
    /\ fresh' = Some(load_rules(storage))
    /\ UNCHANGED <<now, rules, storage, lastObs, saved, siteVars, parsed, apiVars, coordVars, authVars>>

NextDay ==
    /\ today < MaxDay
    /\ now' = now + 24
    /\ UNCHANGED <<rulesVars, siteVars, parsed, apiVars, coordVars, authVars>>

\* the file found at start-up: none, or the rules an earlier run persisted
InitFiles ==
    {NoFile,
     save_rules([l \in {"libA"} |-> [renewal_offset_days |-> 6, last_updated |-> FirstDay - 3]])}

\* no site is contacted
NoPages == [a \in {} |-> EmptyPage]

\* BibKatAuthHelper.__init__ and BibKatAPI.__init__: no session is cached,
\* created or held
InitNoSessions ==
    /\ sessions = [a \in {} |-> None]
    /\ created = 0
    /\ closed = {}
    /\ held = [a \in {} |-> None]
    /\ authLog = None

\* no coordinator is set up
InitNoCoordinator ==
    /\ accounts = <<>>
    /\ data = None
    /\ last_renewal_date_fetch = None
    /\ cycleLog = None
    /\ reservations_fetched = FALSE
    /\ shared_reservations = <<>>
    /\ renewAllLog = None /\ renewOneLog = None

InitRules ==
    /\ now = 24 * FirstDay
    /\ storage \in InitFiles
    /\ rules = load_rules(storage)
    /\ fresh = None
    /\ lastObs = [l \in Libs |-> None]
    /\ saved = FALSE
    /\ mainPage = NoPages /\ familyPage = NoPages /\ reservationPages = NoPages
    /\ parsed = None
    /\ apis = NoApis /\ useBrowser = FALSE /\ hasPlaywright = FALSE
    /\ fetchLog = None /\ renewLog = None /\ reservedLog = None /\ dateLog = None
    /\ InitNoCoordinator
    /\ InitNoSessions

NextRules == Observe \/ NewManager \/ NextDay

SpecRules == InitRules /\ [][NextRules]_vars

(***************************************************************************)
(* The loan parser applied to one page                                     *)
(***************************************************************************)
MaxPageLen == 4

\* the account whose pages are read: Account.id is "<library_name>_<username>"
Client == "boehl_687"

\* 25. Juli (a loan's due date), and the blocks a family page is made of
DueJul25 == Some(NameDate(25, 7))
DatedItem == ItemBlock(1, TRUE, TRUE, FALSE, DueJul25, FALSE)
UndatedItem == ItemBlock(2, TRUE, TRUE, FALSE, None, FALSE)
MessageItem == ItemBlock(3, TRUE, TRUE, TRUE, DueJul25, FALSE)
UntitledItem == ItemBlock(4, FALSE, FALSE, FALSE, DueJul25, FALSE)
ParseElems ==
    {Header(Some("687")), Header(Some("689")), Header(None),
     DatedItem, UndatedItem, MessageItem, UntitledItem}

RECURSIVE SeqsUpTo(_, _)
SeqsUpTo(S, n) ==
    IF n = 0 THEN {<<>>}
    ELSE SeqsUpTo(S, n - 1) \cup
         {Append(q, x) : q \in {r \in SeqsUpTo(S, n - 1) : Len(r) = n - 1}, x \in S}

ParsePages ==
    {[listing |-> TRUE, elems |-> q] : q \in SeqsUpTo(ParseElems, MaxPageLen)}
    \cup {[listing |-> FALSE, elems |-> <<Header(Some("687")), DatedItem>>]}

ParsePage ==
    \E account_type \in {"main", "family"}, http \in {"ok", "status"} :
        /\ parsed' = Some([account_type |-> account_type, http |-> http,
                           media |-> get_media_from_page(
                               IF account_type = "family" THEN familyPage[Client]
                               ELSE mainPage[Client],
                               account_type, http, rules)])
        /\ UNCHANGED <<now, rulesVars, siteVars, apiVars, coordVars, authVars>>

InitParse ==
    /\ now = 24 * FirstDay
    /\ storage = NoFile
    /\ rules = load_rules(storage)
    /\ fresh = None
    /\ lastObs = [l \in Libs |-> None]
    /\ saved = FALSE
    /\ familyPage \in [{Client} -> ParsePages]
    /\ mainPage = familyPage
    /\ reservationPages = NoPages
    /\ parsed = None
    /\ apis = NoApis /\ useBrowser = FALSE /\ hasPlaywright = FALSE
    /\ fetchLog = None /\ renewLog = None /\ reservedLog = None /\ dateLog = None
    /\ InitNoCoordinator
    /\ InitNoSessions

NextParse == ParsePage

SpecParse == InitParse /\ [][NextParse]_vars

\* the account number of the most recent "Konto Nr. N" header before
\* position i, or None
KontoBefore(elems, i) ==
    LET js == {j \in 1..(i - 1) : elems[j].tag = "h4" /\ elems[j].konto # None}
    IN  IF js = {} THEN None
        ELSE elems[CHOOSE j \in js : \A k \in js : k <= j].konto

\* the positions of the loan blocks of a family page: titled item blocks,
\* not message variants, with a due date, below an account header
LoanBlocks(elems) ==
    {i \in 1..Len(elems) :
        /\ elems[i].tag = "item"
        /\ elems[i].title /\ ~elems[i].msg
        /\ elems[i].status # None
        /\ KontoBefore(elems, i) # None}

NthOf(S, k) == CHOOSE i \in S : Cardinality({j \in S : j <= i}) = k

\* C7: the family parse returns, in document order, exactly the item blocks
\* that have a due date, each attributed to the account number of the most
\* recent preceding "Konto Nr. N" header; blocks without due date are not
\* returned; two sections, the first with a dated item and the second with
\* an undated one, give one item of the first account.
Thm_C7 ==
    (parsed # None /\ Val(parsed).account_type = "family" /\ Val(parsed).http = "ok"
        /\ familyPage[Client].listing) =>
        LET elems == familyPage[Client].elems
            media == Val(parsed).media
        IN  /\ Len(media) = Cardinality(LoanBlocks(elems))
            /\ \A k \in 1..Len(media) :
                  /\ media[k].media_id = elems[NthOf(LoanBlocks(elems), k)].id
                  /\ media[k].owner_number = KontoBefore(elems, NthOf(LoanBlocks(elems), k))
                  /\ media[k].due_date
            /\ elems = <<Header(Some("687")), DatedItem, Header(Some("689")), UndatedItem>>
                  => /\ Len(media) = 1
                     /\ media[1].owner_number = Some("687")

Wit_C7 ==
    /\ parsed # None /\ Val(parsed).account_type = "family" /\ Val(parsed).http = "ok"
    /\ familyPage[Client].listing
    /\ familyPage[Client].elems = <<Header(Some("687")), DatedItem, Header(Some("689")), UndatedItem>>
    /\ Len(Val(parsed).media) = 1

(***************************************************************************)
(* One API client against the site                                         *)
(***************************************************************************)
\* the loans the site shows: loan 1 is due on 25 July and shows the renew
\* action or not, loan 2 is due on 19.08.2025, loan 3 has a status text
\* that is no date
Loan1(renew) == ItemBlock(1, TRUE, TRUE, FALSE, Some(NameDate(25, 7)), renew)
Loan2 == ItemBlock(2, TRUE, TRUE, FALSE, Some(NumericDate(19, 8, 2025)), FALSE)
Loan3 == ItemBlock(3, TRUE, TRUE, FALSE, Some(OtherText), FALSE)

MaxRepeat == 2

MainPages(renew) ==
    {[listing |-> TRUE, elems |-> q] : q \in SeqsUpTo({Loan1(renew)}, MaxRepeat)}

FamilyPages(renew) ==
    {[listing |-> TRUE,
      elems |-> <<Header(Some("687"))>> \o q1 \o <<Header(Some("689"))>> \o q2] :
        q1 \in SeqsUpTo({Loan1(renew)}, MaxRepeat), q2 \in {<<>>, <<Loan2>>, <<Loan3>>}}

DetailResponses == {NoDetail, DetailWithout, DetailFrom(NameDate(19, 7))}

FetchEnvs ==
    [probe : BOOLEAN, login : LoginOutcomes,
     main_http : HttpOutcomes, family_http : HttpOutcomes,
     details : [{1} -> DetailResponses]]

\* get_borrowed_media() of the client, the site answering with one of envs
FetchMedia(envs) ==
    \E env \in envs :
        \E got \in {get_borrowed_media(apis[Client], mainPage[Client], familyPage[Client],
                                         env, rules)},
           li \in {ensure_logged_in(apis[Client], env.probe, env.login)} :
            /\ apis' = [apis EXCEPT ![Client] = got.api]
            /\ fetchLog' = Some([logged_in |-> li.ok,
                                 main_ok |-> env.main_http = "ok",
                                 family_ok |-> env.family_http = "ok",
                                 media |-> got.media,
                                 detail_requests |-> got.detail_requests,
                                 at |-> now])
            /\ renewLog' = None
            /\ UNCHANGED <<now, rulesVars, siteVars, parsed, useBrowser, hasPlaywright,
                           reservedLog, dateLog, coordVars, authVars>>

InitClient ==
    /\ now = 24 * FirstDay
    /\ storage \in InitFiles
    /\ rules = load_rules(storage)
    /\ fresh = None
    /\ lastObs = [l \in Libs |-> None]
    /\ saved = FALSE
    /\ parsed = None
    /\ apis = [a \in {Client} |-> NewApi]
    /\ fetchLog = None
    /\ renewLog = None
    /\ reservedLog = None /\ dateLog = None
    /\ InitNoCoordinator
    /\ InitNoSessions

InitMerge ==
    /\ InitClient
    /\ reservationPages = NoPages
    /\ \E renew \in BOOLEAN :
          /\ mainPage \in [{Client} -> MainPages(renew)]
          /\ familyPage \in [{Client} -> FamilyPages(renew)]
    /\ useBrowser = FALSE
    /\ hasPlaywright = FALSE

NextMerge == FetchMedia(FetchEnvs)

SpecMerge == InitMerge /\ [][NextMerge]_vars

\* the renewal engine on the lists of one client
BrowserResults ==
    {BrowserResult(FALSE, None, None), BrowserResult(TRUE, None, None),
     BrowserResult(TRUE, Some(222), None), BrowserResult(TRUE, Some(222), Some(8)),
     BrowserResult(TRUE, Some(203), None)}

PostResponses == {HttpError, HttpStatus, HttpNotJson, Envelope(TRUE, FALSE), Envelope(FALSE, FALSE)}

\* the POST is answered only when it is sent, the browser only when asked
RenewEnvs ==
    {[get |-> g, post |-> p, browser |-> b] :
        g \in RenewResponses, p \in PostResponses, b \in BrowserResults}

RenewFetchEnvs ==
    [probe : {TRUE}, login : {"ok", "auth_failed"},
     main_http : {"ok"}, family_http : {"ok", "status"},
     details : [{1} -> {DetailWithout, DetailFrom(NameDate(19, 7))}]]

\* renew_media(media_id) of the client; a learned offset goes to
\* update_rules. The browser computes its offset from the due date it
\* reads in the item's status text, so an offset it reports is the item's
\* due date minus the date of the dialog.
RenewMedia ==
    \E media_id \in {1, 2, 3}, env \in RenewEnvs :
        \E done \in {renew_media(apis[Client], media_id, env, rules, useBrowser, hasPlaywright)} :
        LET sent == Len(done.requests)
        IN  /\ fetchLog # None
            /\ sent < 2 => env.post = HttpError
            /\ sent > 0 => env.browser = BrowserResult(FALSE, None, None)
            /\ sent = 0 => env.get = HttpError
            /\ done.result.message = "Medium nicht gefunden" =>
                  env.browser = BrowserResult(FALSE, None, None)
            /\ env.browser.renewal_offset_days # None =>
                  FirstDue(apis[Client].last_media_list, media_id)
                      = Some(Val(env.browser.renewal_date_iso)
                                 + Val(env.browser.renewal_offset_days))
            /\ renewLog' = Some([media_id |-> media_id, env |-> env,
                                 media_info |-> FindMedia(apis[Client].last_media_list, media_id),
                                 offset_before |-> get_renewal_offset_days(rules, ApiLib),
                                 result |-> done.result, requests |-> done.requests])
            /\ IF done.learned # None
               THEN \E outcome \in SaveOutcomes : update_rules(ApiLib, Val(done.learned), outcome)
               ELSE UNCHANGED <<rules, storage, saved, fresh>>
            /\ UNCHANGED <<now, lastObs, siteVars, parsed, apis, useBrowser, hasPlaywright, fetchLog,
                           reservedLog, dateLog, coordVars, authVars>>

InitRenew ==
    /\ InitClient
    /\ reservationPages = NoPages
    /\ \E renew \in BOOLEAN :
          /\ mainPage = [a \in {Client} |-> [listing |-> TRUE, elems |-> <<Loan1(renew)>>]]
          /\ familyPage \in [{Client} ->
                                {[listing |-> TRUE,
                                  elems |-> <<Header(Some("687")), Loan1(renew),
                                              Header(Some("689"))>> \o q2] :
                                    q2 \in {<<Loan2>>, <<Loan3>>}}]
    /\ useBrowser \in BOOLEAN
    /\ hasPlaywright \in BOOLEAN

NextRenew == FetchMedia(RenewFetchEnvs) \/ RenewMedia

SpecRenew == InitRenew /\ [][NextRenew]_vars

(***************************************************************************)
(* parse_german_date on the days of two years, the second a leap year      *)
(***************************************************************************)
FirstParseYear == 2027
MaxParseDays == 731

ParseDays ==
    {DaysBeforeYear(FirstParseYear) + k : k \in 0..(MaxParseDays - 1)}

\* the texts "<day>. <Month>" of the days of the calendar, 29 February
\* included
DateInputs ==
    {NameDate(d, m) : <<d, m>> \in {x \in (1..31) \X (1..12) :
                                       x[1] <= DaysInMonth(FirstParseYear + 1, x[2])}}

\* parse_german_date(date_text)
ParseDate ==
    \E text \in DateInputs :
        /\ dateLog = None
        /\ dateLog' = Some([text |-> text, result |-> parse_german_date(text)])
        /\ UNCHANGED <<now, rulesVars, siteVars, parsed, apis, useBrowser, hasPlaywright,
                       fetchLog, renewLog, reservedLog, coordVars, authVars>>

InitDates ==
    /\ now \in {24 * d : d \in ParseDays}
    /\ storage = NoFile
    /\ rules = load_rules(storage)
    /\ fresh = None
    /\ lastObs = [l \in Libs |-> None]
    /\ saved = FALSE
    /\ mainPage = NoPages /\ familyPage = NoPages /\ reservationPages = NoPages
    /\ parsed = None
    /\ apis = NoApis /\ useBrowser = FALSE /\ hasPlaywright = FALSE
    /\ fetchLog = None /\ renewLog = None /\ reservedLog = None /\ dateLog = None
    /\ InitNoCoordinator
    /\ InitNoSessions

NextDates == ParseDate

SpecDates == InitDates /\ [][NextDates]_vars

(***************************************************************************)
(* ReservationsMixin (api_reservations.py): the reservations of the        *)
(* account page and the family page                                        *)
(***************************************************************************)
\* <h4 class="reader-content-title">: konto = the number of "Konto Nr. N"
\* in its text or None, counted = the text also holds "<k> Medien vorgemerkt"
KontoHeader(konto, counted) == [tag |-> "h4", konto |-> konto, counted |-> counted]

\* <div class="item ...">: id 0 = no id attribute; variant "reservation"
\* (item-variant-reservation), "yellow" (item-status-yellow), "message"
\* (item-variant-message) or "loan"; titled = it has a title
ResItem(id, variant, titled) ==
    [tag |-> "item", id |-> id, variant |-> variant, titled |-> titled]

\* the document _parse_reservations_page reads: section = a heading
\* "Vorgemerkte Medien" is followed by a listing div; elems = the account
\* headers and item blocks below it, in document order
ResContent(section, elems) == [section |-> section, elems |-> elems]

\* a page get_reserved_media requests: http = the outcome of the GET,
\* marker = its text holds "Vorgemerkte Medien", link = it links to a
\* reservations page (link_http the outcome of that GET); content = the
\* document that is parsed, the page or the linked page
ResPage(http, marker, link, link_http, content) ==
    [http |-> http, marker |-> marker, link |-> link, link_http |-> link_http,
     content |-> content]

\* the dict of _extract_reservation_info with the owner and, after
\* get_reserved_media, the pages it was found on
ReservationInfo(reservation_id, owner_number) ==
    [reservation_id |-> reservation_id, owner_number |-> owner_number,
     found_on |-> <<>>, account_id |-> None, is_configured |-> TRUE]

\* the walk through the listing below the heading: a reservation item is
\* taken under the last account number seen
RECURSIVE SectionWalk(_, _, _)
SectionWalk(elems, i, current_account_number) ==
    IF i > Len(elems) THEN <<>>
    ELSE IF elems[i].tag = "h4"
    THEN SectionWalk(elems, i + 1,
                     IF elems[i].konto # None THEN elems[i].konto
                     ELSE current_account_number)
    ELSE (IF /\ elems[i].variant = "reservation"
             /\ current_account_number # None
             /\ elems[i].titled
          THEN <<ReservationInfo(elems[i].id, current_account_number)>>
          ELSE <<>>)
         \o SectionWalk(elems, i + 1, current_account_number)

\* "Trying alternative parsing approach": the items that follow a text
\* "Konto Nr. N | k Medien vorgemerkt", up to the next heading
RECURSIVE CountedWalk(_, _, _)
CountedWalk(elems, i, current_account_number) ==
    IF i > Len(elems) THEN <<>>
    ELSE IF elems[i].tag = "h4"
    THEN CountedWalk(elems, i + 1,
                     IF elems[i].counted THEN elems[i].konto ELSE None)
    ELSE (IF current_account_number # None /\ elems[i].titled
          THEN <<ReservationInfo(elems[i].id, current_account_number)>>
          ELSE <<>>)
         \o CountedWalk(elems, i + 1, current_account_number)

\* "Traditional reservations page parsing": every reservation or yellow
\* item, without owner
RECURSIVE Traditional(_, _)
Traditional(elems, i) ==
    IF i > Len(elems) THEN <<>>
    ELSE (IF /\ elems[i].tag = "item"
             /\ elems[i].variant \in {"reservation", "yellow"}
             /\ elems[i].titled
          THEN <<ReservationInfo(elems[i].id, None)>>
          ELSE <<>>)
         \o Traditional(elems, i + 1)

\* the position of a reservation id in a list, 0 if it is not there
PositionOf(list, reservation_id) ==
    IF \E k \in 1..Len(list) : list[k].reservation_id = reservation_id
    THEN CHOOSE k \in 1..Len(list) : list[k].reservation_id = reservation_id
    ELSE 0

\* unique_reservations after one more reservation: a new id is added, a
\* known id is replaced when only the new one has the owner
KeepOwner(unique, res, at) ==
    IF res.reservation_id = 0 THEN unique
    ELSE IF at = 0 THEN Append(unique, res)
    ELSE IF unique[at].owner_number = None /\ res.owner_number # None
    THEN [unique EXCEPT ![at] = res]
    ELSE unique

\* "Remove duplicates based on reservation_id"
RECURSIVE RemoveDuplicates_mut(_, _, _)
RemoveDuplicates_mut(reservations, i, unique) ==
    IF i > Len(reservations) THEN unique
    ELSE RemoveDuplicates_mut(reservations, i + 1,
                              IF reservations[i].reservation_id = 0
                                 \/ PositionOf(unique, reservations[i].reservation_id) # 0
                              THEN unique
                              ELSE Append(unique, reservations[i]))

RECURSIVE RemoveDuplicates(_, _, _)
RemoveDuplicates(reservations, i, unique) ==
    IF i > Len(reservations) THEN unique
    ELSE RemoveDuplicates(reservations, i + 1,
                          KeepOwner(unique, reservations[i],
                                    PositionOf(unique, reservations[i].reservation_id)))

\* the reservations list before the duplicates are removed: the section
\* walk; when it found nothing the counted walk, else the traditional
\* parsing in addition
WithFallbacks(found, elems) ==
    IF found = <<>> THEN CountedWalk(elems, 1, None)
    ELSE found \o Traditional(elems, 1)

FoundReservations(content) ==
    WithFallbacks(IF content.section THEN SectionWalk(content.elems, 1, None) ELSE <<>>,
                  content.elems)

parse_reservations_page(content) == RemoveDuplicates(FoundReservations(content), 1, <<>>)

\* what one URL of urls_to_check contributes: nothing when a request
\* fails or the page has neither the section nor a reservations link
PageReservations(page) ==
    IF page.http # "ok" THEN <<>>
    ELSE IF page.marker THEN parse_reservations_page(page.content)
    ELSE IF ~page.link \/ page.link_http # "ok" THEN <<>>
    ELSE parse_reservations_page(page.content)

\* "Process reservations": a new id is added with found_on, a known id
\* only gets the page appended to found_on
AddReservation(all_reservations, reservation, account_type, at) ==
    IF reservation.reservation_id = 0 THEN all_reservations
    ELSE IF at = 0
    THEN Append(all_reservations, [reservation EXCEPT !.found_on = <<account_type>>])
    ELSE [all_reservations EXCEPT ![at].found_on = Append(@, account_type)]

RECURSIVE ProcessReservations(_, _, _, _)
ProcessReservations(all_reservations, reservations, i, account_type) ==
    IF i > Len(reservations) THEN all_reservations
    ELSE ProcessReservations(
             AddReservation(all_reservations, reservations[i], account_type,
                            PositionOf(all_reservations, reservations[i].reservation_id)),
             reservations, i + 1, account_type)

\* get_reserved_media(): the account page, then the family page
get_reserved_media(logged_in, pages) ==
    IF ~logged_in THEN <<>>
    ELSE ProcessReservations(
             ProcessReservations(<<>>, PageReservations(pages.main), 1, "main"),
             PageReservations(pages.family), 1, "family")

\* the elements of the account page's reservation listing
MaxResLen == 3

RECURSIVE ResSeqs(_, _)
ResSeqs(S, n) ==
    IF n = 0 THEN {<<>>}
    ELSE ResSeqs(S, n - 1)
         \cup {Append(q, x) : q \in {r \in ResSeqs(S, n - 1) : Len(r) = n - 1}, x \in S}

MainResElems ==
    {KontoHeader(Some("687"), TRUE), ResItem(11, "reservation", TRUE),
     ResItem(12, "yellow", TRUE)}

MainResPages ==
    {ResPage("ok", c.section, c.elems # <<>> /\ ~c.section, "ok", c) :
        c \in {ResContent(section, elems) :
                  section \in BOOLEAN, elems \in ResSeqs(MainResElems, MaxResLen)}}
    \cup {ResPage(http, FALSE, TRUE, link_http,
                  ResContent(TRUE, <<KontoHeader(Some("687"), TRUE),
                                     ResItem(11, "reservation", TRUE)>>)) :
            http \in {"ok", "error"}, link_http \in {"ok", "error"}}

\* the family page: the reservations of readers 687 and 689, with or
\* without the section heading, with items outside the account headers,
\* without title or without id
FamilyResPages ==
    {ResPage(http, c.section, FALSE, "ok", c) :
        http \in {"ok", "error"},
        c \in {ResContent(section, elems) :
                  section \in BOOLEAN,
                  elems \in {<<>>,
                             <<KontoHeader(Some("687"), TRUE), ResItem(11, "reservation", TRUE),
                               KontoHeader(Some("689"), TRUE), ResItem(12, "reservation", TRUE)>>,
                             <<ResItem(13, "reservation", TRUE),
                               KontoHeader(Some("687"), FALSE), ResItem(11, "reservation", TRUE),
                               KontoHeader(None, TRUE), ResItem(12, "loan", TRUE)>>,
                             <<KontoHeader(Some("689"), TRUE), ResItem(0, "reservation", TRUE),
                               ResItem(12, "reservation", FALSE),
                               ResItem(11, "message", TRUE)>>}}}

\* get_reserved_media() of the client
GetReservedMedia ==
    \E logged_in \in BOOLEAN :
        /\ reservedLog' = Some([logged_in |-> logged_in,
                                main |-> PageReservations(reservationPages[Client].main),
                                family |-> PageReservations(reservationPages[Client].family),
                                result |-> get_reserved_media(logged_in,
                                                              reservationPages[Client])])
        /\ UNCHANGED <<now, rulesVars, siteVars, parsed, apis, useBrowser, hasPlaywright,
                       fetchLog, renewLog, dateLog, coordVars, authVars>>

InitReservations ==
    /\ InitClient
    /\ mainPage = [a \in {Client} |-> EmptyPage]
    /\ familyPage = [a \in {Client} |-> EmptyPage]
    /\ useBrowser = FALSE
    /\ hasPlaywright = FALSE
    /\ reservationPages \in [{Client} -> [main : MainResPages, family : FamilyResPages]]

NextReservations == GetReservedMedia

SpecReservations == InitReservations /\ [][NextReservations]_vars

(***************************************************************************)
(* BibKatMultiAccountCoordinator (coordinator.py): the fetch cycle         *)
(***************************************************************************)
Elems(q) == {q[i] : i \in 1..Len(q)}

\* the positions of the items with a media id in a list
Having(media_list, media_id) ==
    {i \in 1..Len(media_list) : media_list[i].media_id = media_id}

\* Account (account_manager.py): the id is "<library_name>_<username>"
Account(username, enabled) ==
    [id |-> "boehl_" \o username, username |-> username, enabled |-> enabled]

\* the first position of a sequence that satisfies a test, 0 if none
FirstAt(q, Test(_)) ==
    LET is == {i \in 1..Len(q) : Test(q[i])}
    IN  IF is = {} THEN 0 ELSE CHOOSE i \in is : \A j \in is : i <= j

\* the account of the list whose username is the owner number
OwnerAccount(accts, owner_number) ==
    FirstAt(accts, LAMBDA acc : acc.username = owner_number)

\* "Add account info to each media item": the account a loan is assigned to
AssignAccount(item, account, accts) ==
    IF item.owner_number # None /\ "family" \in Elems(item.found_on)
    THEN IF OwnerAccount(accts, Val(item.owner_number)) # 0
         THEN [item EXCEPT !.account_id =
                              Some(accts[OwnerAccount(accts, Val(item.owner_number))].id)]
         ELSE [item EXCEPT !.account_id = item.owner_number, !.is_configured = FALSE]
    ELSE [item EXCEPT !.account_id = Some(account.id)]

\* a reservation as get_reserved_media returns it
Reservation(reservation_id, owner_number) ==
    [reservation_id |-> reservation_id, owner_number |-> owner_number,
     account_id |-> None, is_configured |-> TRUE]

\* _shared_reservations, a dict in insertion order: the list under a key
Bucket(shared, key) ==
    LET at == FirstAt(shared, LAMBDA b : b.key = key)
    IN  IF at = 0 THEN <<>> ELSE shared[at].items

AddToBucket(shared, key, item) ==
    LET at == FirstAt(shared, LAMBDA b : b.key = key)
    IN  IF at = 0 THEN Append(shared, [key |-> key, items |-> <<item>>])
        ELSE [shared EXCEPT ![at].items = Append(@, item)]

\* "Process reservations and assign to correct accounts"
RECURSIVE AssignReservations(_, _, _, _)
AssignReservations(shared, all_reservations, account, accts) ==
    IF all_reservations = <<>> THEN shared
    ELSE LET item == Head(all_reservations)
             owner == IF item.owner_number = None THEN 0
                      ELSE OwnerAccount(accts, Val(item.owner_number))
             placed ==
                 IF item.owner_number = None
                 THEN AddToBucket(shared, account.id,
                                  [item EXCEPT !.account_id = Some(account.id)])
                 ELSE IF owner # 0
                 THEN AddToBucket(shared, accts[owner].id,
                                  [item EXCEPT !.account_id = Some(accts[owner].id)])
                 ELSE AddToBucket(shared, Val(item.owner_number),
                                  [item EXCEPT !.account_id = item.owner_number,
                                               !.is_configured = FALSE])
         IN  AssignReservations(placed, Tail(all_reservations), account, accts)

\* get_account_info: {} when the client is not logged in
get_account_info(api) == IF api.logged_in THEN "account_info" ELSE "empty"

\* an entry of all_data["accounts"]
AccountData(key, borrowed_media, balance_info, reservations, is_configured) ==
    [key |-> key, borrowed_media |-> borrowed_media,
     total_borrowed |-> Len(borrowed_media), balance_info |-> balance_info,
     reservations |-> reservations, total_reservations |-> Len(reservations),
     is_configured |-> is_configured]

\* all_data and the coordinator fields at the start of a cycle:
\* "Reset reservation fetch flag for each update"
StartOfCycle_mut(as) ==
    [apis |-> as, accounts |-> <<>>, total_borrowed |-> 0, all_media |-> <<>>,
     reservations_fetched |-> reservations_fetched,
     shared_reservations |-> shared_reservations,
     fetched |-> {}, detail_requests |-> <<>>, reservation_fetches |-> 0]

StartOfCycle(as) ==
    [apis |-> as, accounts |-> <<>>, total_borrowed |-> 0, all_media |-> <<>>,
     reservations_fetched |-> FALSE, shared_reservations |-> <<>>,
     fetched |-> {}, detail_requests |-> <<>>, reservation_fetches |-> 0]

\* the detail pages get_borrowed_media requested for the account, by media id
DetailIds(account, got) ==
    SelectSeq([i \in 1..Len(got.media) |->
                  [account_id |-> account.id,
                   media_id |-> IF got.detail_requests[i] THEN got.media[i].media_id ELSE 0]],
              LAMBDA r : r.media_id # 0)

\* the API client after the loop body: the dicts of _last_media_list are
\* the dicts the coordinator has written the account into
ClientWith(api, fetched, media) ==
    IF fetched THEN [api EXCEPT !.last_media_list = media] ELSE api

\* "Create account data with assigned reservations" and the extension of
\* all_data
StoreAccount(st, account, fetched, got, media, shared) ==
    [apis |-> (account.id :> ClientWith(got.api, fetched, media)) @@ st.apis,
     accounts |-> Append(st.accounts,
                         AccountData(account.id, media, get_account_info(got.api),
                                     Bucket(shared, account.id), TRUE)),
     total_borrowed |-> st.total_borrowed + Len(media),
     all_media |-> st.all_media \o media,
     reservations_fetched |-> TRUE,
     shared_reservations |-> shared,
     fetched |-> IF fetched THEN st.fetched \cup {account.id} ELSE st.fetched,
     detail_requests |-> st.detail_requests \o DetailIds(account, got),
     reservation_fetches |-> st.reservation_fetches
                                + (IF st.reservations_fetched THEN 0 ELSE 1)]

\* "Fetch reservations only once per update cycle"
FetchReservations(st, account, accts, env, fetched, got, media) ==
    StoreAccount(st, account, fetched, got, media,
                 IF ~st.reservations_fetched
                 THEN AssignReservations(st.shared_reservations,
                                         IF got.api.logged_in THEN env.reservations ELSE <<>>,
                                         account, accts)
                 ELSE st.shared_reservations)

\* the loop body after get_borrowed_media has returned got
AssignMedia(st, account, accts, env, fetched, got) ==
    FetchReservations(st, account, accts, env, fetched, got,
                      [i \in 1..Len(got.media) |-> AssignAccount(got.media[i], account, accts)])

\* the loop body after the coordinator's _ensure_logged_in
FetchAccount(st, account, accts, env, rs, li) ==
    IF ~li.ok
    THEN [st EXCEPT !.apis = (account.id :> li.api) @@ st.apis]
    ELSE AssignMedia(st, account, accts, env,
                     ensure_logged_in(li.api, env.fetch_probe, env.fetch_login).ok,
                     get_borrowed_media(li.api, mainPage[account.id], familyPage[account.id],
                                        [probe |-> env.fetch_probe, login |-> env.fetch_login,
                                         main_http |-> env.main_http,
                                         family_http |-> env.family_http,
                                         details |-> env.details],
                                        rs))

\* the body of "for i, account in enumerate(accounts)" for one enabled
\* account. env: probe and login answer the coordinator's _ensure_logged_in,
\* fetch_probe, fetch_login and the page answers the get_borrowed_media call,
\* reservations is what get_reserved_media finds.
ProcessAccount(st, account, accts, env, rs) ==
    FetchAccount(st, account, accts, env, rs,
                 ensure_logged_in(IF account.id \in DOMAIN st.apis THEN st.apis[account.id]
                                  ELSE NewApi,
                                  env.probe, env.login))

\* "Fetch data for each account": the loop from account i on
RECURSIVE ProcessAccounts(_, _, _, _, _)
ProcessAccounts(st, i, accts, envs, rs) ==
    IF i > Len(accts) THEN st
    ELSE IF ~accts[i].enabled THEN ProcessAccounts(st, i + 1, accts, envs, rs)
    ELSE ProcessAccounts(ProcessAccount(st, accts[i], accts, envs[i], rs),
                         i + 1, accts, envs, rs)

\* a set as a sequence, in the order a Python set happens to iterate
RECURSIVE SetToSeq(_)
SetToSeq(S) ==
    IF S = {} THEN <<>>
    ELSE LET x == CHOOSE y \in S : TRUE IN <<x>> \o SetToSeq(S \ {x})

\* the account numbers of the unconfigured loans alone
UnconfiguredAccounts_mut(st, accts) ==
    {Val(st.all_media[i].account_id) :
        i \in {j \in 1..Len(st.all_media) :
                  ~st.all_media[j].is_configured /\ st.all_media[j].account_id # None}}

\* "Add unconfigured family members to the data": the account numbers of
\* loans and reservation buckets that belong to no configured account
UnconfiguredAccounts(st, accts) ==
    {Val(st.all_media[i].account_id) :
        i \in {j \in 1..Len(st.all_media) :
                  ~st.all_media[j].is_configured /\ st.all_media[j].account_id # None}}
    \cup {st.shared_reservations[i].key :
            i \in {j \in 1..Len(st.shared_reservations) :
                      \A k \in 1..Len(accts) :
                          /\ accts[k].username # st.shared_reservations[j].key
                          /\ accts[k].id # st.shared_reservations[j].key}}

\* the entries of all_data["accounts"] for these account numbers
EntriesFor(st, numbers) ==
    [n \in 1..Len(numbers) |->
        AccountData(numbers[n],
                    SelectSeq(st.all_media, LAMBDA m : m.account_id = Some(numbers[n])),
                    "empty", Bucket(st.shared_reservations, numbers[n]), FALSE)]

UnconfiguredEntries(st, accts) == EntriesFor(st, SetToSeq(UnconfiguredAccounts(st, accts)))

\* list.sort(key=days_remaining): a stable sort
RECURSIVE SortByDays(_)
SortByDays(q) ==
    IF q = <<>> THEN <<>>
    ELSE LET m == q[Len(q)]
             sorted == SortByDays(SubSeq(q, 1, Len(q) - 1))
             before == Cardinality({i \in 1..Len(sorted) :
                                       sorted[i].days_remaining <= m.days_remaining})
         IN  SubSeq(sorted, 1, before) \o <<m>> \o SubSeq(sorted, before + 1, Len(sorted))

\* async_renew_media: the API client that renews for an owner, as its
\* account id: the client of the configured account with that id or
\* username, else the first client that is logged in
ApiFor(as, accts, owner_account_id) ==
    LET configured == FirstAt(accts, LAMBDA acc : acc.id = owner_account_id
                                                    \/ acc.username = owner_account_id)
        logged_in == FirstAt(accts, LAMBDA acc : acc.id \in DOMAIN as /\ as[acc.id].logged_in)
    IN  IF configured # 0
        THEN IF accts[configured].id \in DOMAIN as THEN Some(accts[configured].id) ELSE None
        ELSE IF logged_in # 0 THEN Some(accts[logged_in].id) ELSE None

\* a failure async_renew_media returns
Refused(message) ==
    [raised |-> FALSE, result |-> Failed(message), requests |-> <<>>, learned |-> None]

\* async_renew_media: the dict made of what renew_media returned
Answer(renew_result) ==
    [raised |-> FALSE,
     result |-> IF renew_result.result.success
                THEN Result(TRUE, "Erfolgreich verlaengert", None, "")
                ELSE Result(FALSE, renew_result.result.message,
                            renew_result.result.renewal_date_iso, ""),
     requests |-> renew_result.requests,
     learned |-> renew_result.learned]

\* async_renew_media with the API client chosen for the owner
RenewWith(api, as, media_id, env, rs, use_browser, has_playwright) ==
    IF api = None THEN Refused("Keine API-Verbindung verfuegbar")
    ELSE Answer(renew_media(as[Val(api)], media_id, env, rs, use_browser, has_playwright))

\* async_renew_media after the search for the owner: found is the position
\* of the first account entry that holds the media id, 0 if none
RenewOwned(found, entries, as, accts, media_id, account_id, env, rs, use_browser, has_playwright) ==
    IF found = 0 THEN Refused("Medium nicht gefunden")
    ELSE IF account_id # None /\ Val(account_id) # entries[found].key
    THEN Refused("Medium gehoert nicht zu Konto")
    ELSE RenewWith(ApiFor(as, accts, entries[found].key), as, media_id, env, rs,
                   use_browser, has_playwright)

\* async_renew_media(media_id, account_id) on the output prev of the last
\* cycle (self.data). self.data is None before the first cycle has ended,
\* and reading it raises.
async_renew_media(prev, as, accts, media_id, account_id, env, rs, use_browser, has_playwright) ==
    IF prev = None
    THEN [raised |-> TRUE, result |-> Failed("AttributeError"), requests |-> <<>>,
          learned |-> None]
    ELSE RenewOwned(FirstAt(Val(prev).accounts,
                            LAMBDA e : Having(e.borrowed_media, media_id) # {}),
                    Val(prev).accounts, as, accts, media_id, account_id, env, rs,
                    use_browser, has_playwright)

\* the daily check after the call for one loan: the date of a failed
\* renewal is attached, a learned offset enters the rules
AfterCall(c, media, call) ==
    [dates |-> IF ~call.raised /\ ~call.result.success
                  /\ call.result.renewal_date_iso # None
               THEN (media.media_id :> call.result.renewal_date_iso) @@ c.dates
               ELSE c.dates,
     rs |-> IF call.learned # None THEN RulesWith(c.rs, ApiLib, Val(call.learned))
            ELSE c.rs,
     learned |-> IF call.learned # None THEN call.learned ELSE c.learned,
     calls |-> Append(c.calls, [media_id |-> media.media_id,
                                raised |-> call.raised,
                                result |-> call.result,
                                requests |-> call.requests])]

\* "Get renewal dates for non-renewable items": the loop over the loans of
\* all account entries. c holds the dates attached so far (by media id),
\* the rules and the calls made.
RECURSIVE CheckRenewalDates(_, _, _, _, _, _, _, _)
CheckRenewalDates(c, items, prev, as, accts, env, use_browser, has_playwright) ==
    IF items = <<>> THEN c
    ELSE CheckRenewalDates(
             IF /\ ~Head(items).renewable
                /\ Head(items).renewal_date_iso = None
                /\ Head(items).media_id \notin DOMAIN c.dates
             THEN AfterCall(c, Head(items),
                            async_renew_media(prev, as, accts, Head(items).media_id, None,
                                              env, c.rs, use_browser, has_playwright))
             ELSE c,
             Tail(items), prev, as, accts, env, use_browser, has_playwright)

\* the renewal dates written into the dicts with the media ids
ApplyDates(media_list, dates) ==
    [i \in 1..Len(media_list) |->
        IF media_list[i].media_id \in DOMAIN dates
        THEN [media_list[i] EXCEPT !.renewal_date_iso = dates[media_list[i].media_id]]
        ELSE media_list[i]]

RECURSIVE Flatten(_)
Flatten(entries) ==
    IF entries = <<>> THEN <<>>
    ELSE Head(entries).borrowed_media \o Flatten(Tail(entries))

\* the daily check runs when none has run or the last is more than 86400
\* seconds ago
ShouldFetchRenewalDates ==
    \/ last_renewal_date_fetch = None
    \/ (now - Val(last_renewal_date_fetch)) * 3600 > 86400

\* what a cycle leaves: all_data, the API clients (their _last_media_list
\* holds the dicts of all_data), the rules and the calls of the daily check
CycleOutput(st, entries, c) ==
    [data |-> [accounts |-> [e \in 1..Len(entries) |->
                                [entries[e] EXCEPT
                                    !.borrowed_media = ApplyDates(@, c.dates)]],
               total_borrowed |-> st.total_borrowed,
               all_media |-> ApplyDates(SortByDays(st.all_media), c.dates)],
     apis |-> [a \in DOMAIN st.apis |->
                  IF a \in st.fetched
                  THEN [st.apis[a] EXCEPT !.last_media_list = ApplyDates(@, c.dates)]
                  ELSE st.apis[a]],
     rs |-> c.rs, learned |-> c.learned, calls |-> c.calls]

\* the daily check, when it is due, over the loans of the entries
DailyCheck(entries, c, prev, as, accts, env, use_browser, has_playwright) ==
    IF ShouldFetchRenewalDates
    THEN CheckRenewalDates(c, Flatten(entries), prev, as, accts, env,
                           use_browser, has_playwright)
    ELSE c

\* _async_update_data after the entries of unconfigured members are added
SortAndCheck(st, entries, accts, env, rs, use_browser, has_playwright) ==
    CycleOutput(st, entries,
                DailyCheck(entries,
                           [dates |-> <<>>, rs |-> rs, learned |-> None, calls |-> <<>>],
                           data, st.apis, accts, env, use_browser, has_playwright))

\* _async_update_data after the account loop: the entries of unconfigured
\* family members, the sort and the daily renewal date check
FinishCycle(st, accts, env, rs, use_browser, has_playwright) ==
    SortAndCheck(st, st.accounts \o UnconfiguredEntries(st, accts), accts, env, rs,
                 use_browser, has_playwright)

(***************************************************************************)
(* The fetch cycle of two accounts of one family                           *)
(***************************************************************************)
\* the hours after the start at which a cycle can run
CycleTimes == {0, 1, 24, 25}

Loan4 == ItemBlock(4, TRUE, TRUE, FALSE, Some(NumericDate(1, 8, 2025)), FALSE)

MediaIds == {1, 2, 3, 4}

Acc687 == "boehl_687"
Acc689 == "boehl_689"

\* the configured accounts: readers 687 and 689, the second enabled or not
AccountConfigs == {<<Account("687", TRUE), Account("689", e2)>> : e2 \in BOOLEAN}

\* the family page lists loan 1 of reader 687 and loan 2 of reader 689,
\* and with ext loan 4 of reader 690; each reader's account page lists the
\* reader's own loan
FamilyOf(renew, ext) ==
    [listing |-> TRUE,
     elems |-> <<Header(Some("687")), Loan1(renew), Header(Some("689")), Loan2>>
               \o (IF ext THEN <<Header(Some("690")), Loan4>> ELSE <<>>)]

Sites ==
    {[main |-> (Acc687 :> [listing |-> TRUE, elems |-> <<Loan1(renew)>>])
               @@ (Acc689 :> [listing |-> TRUE, elems |-> <<Loan2>>]),
      family |-> [a \in {Acc687, Acc689} |-> FamilyOf(renew, ext)]] :
        renew \in BOOLEAN, ext \in BOOLEAN}

\* what can go wrong for an account in a cycle: the login fails (after a
\* failed session probe when a session exists), the login inside
\* get_borrowed_media fails, the family page is not served, the requests
\* of get_reserved_media fail
Faults == {"none", "auth_failed", "fetch_auth", "family_status", "reservations_failed"}

AccountEnv(fault, detail, reservations) ==
    [probe |-> fault # "auth_failed",
     login |-> IF fault = "auth_failed" THEN fault ELSE "ok",
     fetch_probe |-> fault # "fetch_auth",
     fetch_login |-> IF fault = "fetch_auth" THEN "auth_failed" ELSE "ok",
     main_http |-> "ok",
     family_http |-> IF fault = "family_status" THEN "status" ELSE "ok",
     details |-> [id \in MediaIds |-> detail],
     reservations |-> IF fault = "reservations_failed" THEN <<>> ELSE reservations]

CycleDetails == {DetailWithout, DetailFrom(NameDate(19, 7))}

\* the reservations the site shows to every login
ReservationLists ==
    {<<Reservation(11, None), Reservation(12, Some("689")), Reservation(13, Some("690"))>>}

\* the answers to the renew_media calls of the daily check
CycleRenewEnvs ==
    {[get |-> HttpError, post |-> HttpError, browser |-> BrowserResult(FALSE, None, None)],
     [get |-> Envelope(TRUE, TRUE), post |-> Envelope(TRUE, FALSE),
      browser |-> BrowserResult(TRUE, Some(222), Some(8))]}

\* _async_update_data: one fetch cycle over the accounts, at most one of
\* them meeting a fault; the clock has moved on since the cycle before
\* _async_update_data on the API clients as and the rules rs; learned_before
\* = the rules were changed by the caller of the refresh; found[i] = what
\* get_reserved_media of the client of account i finds on the site
CycleOn(as, rs, learned_before, found) ==
    \E f1 \in Faults, f2 \in Faults, detail \in CycleDetails :
        /\ accounts # <<>>
        /\ f1 = "none" \/ f2 = "none"
        /\ ~accounts[1].enabled => f1 = "none"
        /\ ~accounts[2].enabled => f2 = "none"
        /\ \E st \in {ProcessAccounts(StartOfCycle(as), 1, accounts,
                                       <<AccountEnv(f1, detail, found[1]),
                                         AccountEnv(f2, detail, found[2])>>, rs)} :
            /\ st.detail_requests = <<>> => detail = DetailWithout
            /\ \E env \in CycleRenewEnvs :
                  \E out \in {FinishCycle(st, accounts, env, rs, useBrowser, hasPlaywright)} :
                      /\ (\A i \in 1..Len(out.calls) : out.calls[i].raised) =>
                             env.get = HttpError
                      /\ data' = Some(out.data)
                      /\ apis' = out.apis
                      /\ last_renewal_date_fetch' =
                             IF ShouldFetchRenewalDates THEN Some(now)
                             ELSE last_renewal_date_fetch
                      /\ cycleLog' = Some([at |-> now, faults |-> <<f1, f2>>,
                                           detail_requests |-> st.detail_requests,
                                           reservation_fetches |-> st.reservation_fetches,
                                           calls |-> out.calls])
                      /\ reservations_fetched' = st.reservations_fetched
                      /\ shared_reservations' = st.shared_reservations
                      /\ IF out.learned # None \/ learned_before
                         THEN \E outcome \in SaveOutcomes :
                                 /\ rules' = out.rs
                                 /\ storage' = FileAfterSave(out.rs, outcome)
                                 /\ saved' = (outcome = "written")
                                 /\ fresh' = None
                         ELSE UNCHANGED <<rules, storage, saved, fresh>>
                      /\ UNCHANGED <<now, lastObs, siteVars, parsed, useBrowser, hasPlaywright,
                                     fetchLog, renewLog, reservedLog, dateLog, accounts, authVars>>

\* a cycle on a site that shows the same reservations to every login
CycleFrom(as, rs, learned_before) ==
    \E reservations \in ReservationLists :
        CycleOn(as, rs, learned_before, <<reservations, reservations>>)

\* _async_update_data, at most once at a time of the clock
Cycle ==
    /\ cycleLog # None => Val(cycleLog).at < now
    /\ CycleFrom(apis, rules, FALSE)
    /\ UNCHANGED <<renewAllLog, renewOneLog>>

\* time passes between two cycles
Advance ==
    \E hours \in {1, 24} :
        /\ now + hours - 24 * FirstDay \in CycleTimes
        /\ now' = now + hours
        /\ UNCHANGED <<rulesVars, siteVars, parsed, apiVars, coordVars, authVars>>

InitCoordinator ==
    /\ now = 24 * FirstDay
    /\ storage \in InitFiles
    /\ rules = load_rules(storage)
    /\ fresh = None
    /\ lastObs = [l \in Libs |-> None]
    /\ saved = FALSE
    /\ parsed = None
    /\ \E site \in Sites : mainPage = site.main /\ familyPage = site.family
    /\ accounts \in AccountConfigs
    /\ apis = NoApis
    /\ useBrowser \in BOOLEAN
    /\ hasPlaywright = useBrowser
    /\ fetchLog = None /\ renewLog = None /\ reservedLog = None /\ dateLog = None
    /\ data = None /\ last_renewal_date_fetch = None /\ cycleLog = None
    /\ reservations_fetched = FALSE
    /\ shared_reservations = <<>>
    /\ renewAllLog = None /\ renewOneLog = None
    /\ InitNoSessions

InitCycle == InitCoordinator /\ reservationPages = NoPages

NextCycle == Cycle \/ Advance

SpecCycle == InitCycle /\ [][NextCycle]_vars

(***************************************************************************)
(* The fetch cycle on the reservation pages of two accounts                *)
(***************************************************************************)
\* the account page of a reader: with shows, its section "Vorgemerkte
\* Medien" lists the reader's reservation under the reader's number
OwnReservations(number, reservation_id, shows) ==
    ResPage("ok", shows, FALSE, "ok",
            ResContent(shows,
                       IF shows
                       THEN <<KontoHeader(Some(number), TRUE),
                              ResItem(reservation_id, "reservation", TRUE)>>
                       ELSE <<>>))

\* the family page of a login: the reservations of the listed readers
FamilyReservations(lists7, lists9) ==
    ResPage("ok", lists7 \/ lists9, FALSE, "ok",
            ResContent(lists7 \/ lists9,
                       (IF lists7 THEN <<KontoHeader(Some("687"), TRUE),
                                         ResItem(11, "reservation", TRUE)>>
                        ELSE <<>>)
                       \o (IF lists9 THEN <<KontoHeader(Some("689"), TRUE),
                                            ResItem(12, "reservation", TRUE)>>
                           ELSE <<>>)))

\* reader 687 may have reserved item 11, reader 689 item 12; the two are
\* one family (each login's family page lists both readers) or not (it
\* lists the reader of the login alone)
ReservationSites ==
    {(Acc687 :> [main |-> OwnReservations("687", 11, has7),
                 family |-> FamilyReservations(has7, has9 /\ family)])
     @@ (Acc689 :> [main |-> OwnReservations("689", 12, has9),
                    family |-> FamilyReservations(has7 /\ family, has9)]) :
        has7 \in BOOLEAN, has9 \in BOOLEAN, family \in BOOLEAN}

\* _async_update_data with get_reserved_media reading the pages of the site
CyclePages ==
    /\ cycleLog # None => Val(cycleLog).at < now
    /\ CycleOn(apis, rules, FALSE,
               [i \in 1..Len(accounts) |->
                   get_reserved_media(TRUE, reservationPages[accounts[i].id])])
    /\ UNCHANGED <<renewAllLog, renewOneLog>>

InitPages ==
    /\ InitCoordinator
    /\ storage = NoFile
    /\ ~useBrowser
    /\ familyPage = [a \in {Acc687, Acc689} |-> FamilyOf(TRUE, FALSE)]
    /\ mainPage[Acc687].elems = <<Loan1(TRUE)>>
    /\ reservationPages \in ReservationSites

NextPages == CyclePages \/ Advance

SpecPages == InitPages /\ [][NextPages]_vars

(***************************************************************************)
(* Bulk renewal: async_renew_all_media (coordinator.py) and                *)
(* renew_all_media (api.py)                                                *)
(***************************************************************************)
\* renew_all_media after renew_media(media_id) returned: the rules learned
\* and the call made, with the requests it sent to the renewal endpoint
AfterRenew(c, account_id, media, renew_result) ==
    [rs |-> IF renew_result.learned # None
            THEN RulesWith(c.rs, ApiLib, Val(renew_result.learned))
            ELSE c.rs,
     learned |-> c.learned \/ renew_result.learned # None,
     attempts |-> Append(c.attempts,
                         [account_id |-> account_id,
                          media_id |-> media.media_id,
                          owner_number |-> media.owner_number,
                          found_on |-> media.found_on,
                          requests |-> renew_result.requests,
                          success |-> renew_result.result.success])]

\* "Process each media using the unified renew_media method"
RECURSIVE RenewEach(_, _, _, _, _, _, _)
RenewEach(c, api, account_id, renewable_media, env, use_browser, has_playwright) ==
    IF renewable_media = <<>> THEN c
    ELSE RenewEach(AfterRenew(c, account_id, Head(renewable_media),
                              renew_media(api, Head(renewable_media).media_id, env, c.rs,
                                          use_browser, has_playwright)),
                   api, account_id, Tail(renewable_media), env, use_browser, has_playwright)

\* "Filter media that are marked as renewable"
RenewableMedia(media_list) == SelectSeq(media_list, LAMBDA m : m.renewable)

\* renew_all_media after get_borrowed_media has returned got
RenewListed(c, account_id, got, env, use_browser, has_playwright) ==
    [api |-> got.api,
     c |-> RenewEach(c, got.api, account_id, RenewableMedia(got.media), env,
                     use_browser, has_playwright)]

\* BibKatAPI.renew_all_media of the client of an account. env.fetch
\* answers get_borrowed_media, env.renew the renewal endpoint.
renew_all_media(c, api, account_id, env, use_browser, has_playwright) ==
    IF ~api.logged_in THEN [api |-> api, c |-> c]
    ELSE RenewListed(c, account_id,
                     get_borrowed_media(api, mainPage[account_id], familyPage[account_id],
                                        env.fetch, c.rs),
                     env.renew, use_browser, has_playwright)

\* the coordinator after renew_all_media of one account
WithClient(r, account_id, one) ==
    [apis |-> (account_id :> one.api) @@ r.apis, c |-> one.c]

\* "Process each account" of async_renew_all_media(account_id)
RECURSIVE RenewAccounts_mut(_, _, _, _, _, _, _)
RenewAccounts_mut(r, accts, i, account_id, env, use_browser, has_playwright) ==
    IF i > Len(accts) THEN r
    ELSE IF \/ ~accts[i].enabled
            \/ accts[i].id \notin DOMAIN r.apis
    THEN RenewAccounts_mut(r, accts, i + 1, account_id, env, use_browser, has_playwright)
    ELSE RenewAccounts_mut(WithClient(r, accts[i].id,
                                      renew_all_media(r.c, r.apis[accts[i].id], accts[i].id,
                                                      env, use_browser, has_playwright)),
                           accts, i + 1, account_id, env, use_browser, has_playwright)

RECURSIVE RenewAccounts(_, _, _, _, _, _, _)
RenewAccounts(r, accts, i, account_id, env, use_browser, has_playwright) ==
    IF i > Len(accts) THEN r
    ELSE IF \/ (account_id # None /\ accts[i].id # Val(account_id))
            \/ ~accts[i].enabled
            \/ accts[i].id \notin DOMAIN r.apis
    THEN RenewAccounts(r, accts, i + 1, account_id, env, use_browser, has_playwright)
    ELSE RenewAccounts(WithClient(r, accts[i].id,
                                  renew_all_media(r.c, r.apis[accts[i].id], accts[i].id,
                                                  env, use_browser, has_playwright)),
                       accts, i + 1, account_id, env, use_browser, has_playwright)

\* the answers of the site during a bulk renewal
RenewAllEnvs ==
    {[fetch |-> [probe |-> TRUE, login |-> "ok", main_http |-> "ok", family_http |-> f,
                 details |-> [id \in MediaIds |-> DetailWithout]],
      renew |-> [get |-> g, post |-> Envelope(TRUE, FALSE),
                 browser |-> BrowserResult(FALSE, None, None)]] :
        f \in {"ok", "status"}, g \in {HttpError, Envelope(TRUE, TRUE)}}

\* async_renew_all_media(account_id), with the refresh it requests at its
\* end
RenewAll ==
    \E account_id \in {None} \cup {Some(accounts[i].id) : i \in 1..Len(accounts)},
       env \in RenewAllEnvs :
        \E ra \in {RenewAccounts([apis |-> apis,
                                  c |-> [rs |-> rules, learned |-> FALSE, attempts |-> <<>>]],
                                 accounts, 1, account_id, env, useBrowser, hasPlaywright)} :
            /\ cycleLog # None
            /\ renewAllLog' = Some([account_id |-> account_id, env |-> env,
                                    attempts |-> ra.c.attempts])
            /\ CycleFrom(ra.apis, ra.c.rs, ra.c.learned)
            /\ UNCHANGED renewOneLog

\* two accounts of one family that both show loan 1, renewable, and loan 2
InitRenewAll ==
    /\ InitCycle
    /\ ~useBrowser
    /\ storage = NoFile
    /\ accounts = <<Account("687", TRUE), Account("689", TRUE)>>
    /\ familyPage = [a \in {Acc687, Acc689} |-> FamilyOf(TRUE, FALSE)]
    /\ mainPage[Acc687].elems = <<Loan1(TRUE)>>

NextRenewAll == Cycle \/ RenewAll

SpecRenewAll == InitRenewAll /\ [][NextRenewAll]_vars

(***************************************************************************)
(* The renew_media service: async_renew_media(media_id, account_id)        *)
(***************************************************************************)
\* the places of a media id in self.data: the key of the entry and the
\* account_id written into the dict
LabelsOf(prev, media_id) ==
    UNION {{[entry |-> prev.accounts[e].key,
             account_id |-> prev.accounts[e].borrowed_media[i].account_id] :
               i \in Having(prev.accounts[e].borrowed_media, media_id)} :
           e \in 1..Len(prev.accounts)}

\* the messages of the returns of async_renew_media that come before the
\* refresh request at its end
EarlyReturns ==
    {"Medium nicht gefunden", "Medium gehoert nicht zu Konto",
     "Keine API-Verbindung verfuegbar"}

\* the service handler handle_renew_media: async_renew_media on self.data,
\* and the refresh it requests when it got as far as the renewal
RenewOne ==
    \E media_id \in {1, 2},
       account_id \in {None} \cup {Some(accounts[i].id) : i \in 1..Len(accounts)},
       env \in CycleRenewEnvs :
        \E call \in {async_renew_media(data, apis, accounts, media_id, account_id, env,
                                       rules, useBrowser, hasPlaywright)} :
            /\ data # None
            /\ renewOneLog' = Some([media_id |-> media_id, account_id |-> account_id,
                                    labels |-> LabelsOf(Val(data), media_id),
                                    result |-> call.result,
                                    requests |-> call.requests])
            /\ UNCHANGED renewAllLog
            /\ IF call.result.message \in EarlyReturns
               THEN UNCHANGED <<now, rulesVars, siteVars, parsed, apiVars, authVars,
                                accounts, data, last_renewal_date_fetch, cycleLog,
                                reservations_fetched, shared_reservations>>
               ELSE CycleFrom(apis,
                              IF call.learned # None
                              THEN RulesWith(rules, ApiLib, Val(call.learned))
                              ELSE rules,
                              call.learned # None)

NextRenewOne == Cycle \/ RenewOne

SpecRenewOne == InitRenewAll /\ [][NextRenewOne]_vars

(***************************************************************************)
(* One API client over a day: the detail fetch throttle                    *)
(***************************************************************************)
ThrottleEnvs ==
    [probe : BOOLEAN, login : {"ok", "auth_failed"},
     main_http : {"ok"}, family_http : {"ok"},
     details : [{1} -> {DetailWithout, DetailFrom(NameDate(19, 7))}]]

\* the reader has loan 1, with or without renew action, and the family
\* page shows it with loan 2 of reader 689
InitThrottle ==
    /\ InitClient
    /\ reservationPages = NoPages
    /\ \E renew \in BOOLEAN :
          /\ mainPage = [a \in {Client} |-> [listing |-> TRUE, elems |-> <<Loan1(renew)>>]]
          /\ familyPage = [a \in {Client} |-> FamilyOf(renew, FALSE)]
    /\ useBrowser = FALSE
    /\ hasPlaywright = FALSE

NextThrottle == FetchMedia(ThrottleEnvs) \/ Advance

SpecThrottle == InitThrottle /\ [][NextThrottle]_vars

(***************************************************************************)
(* BibKatAuthHelper (auth_helper.py): the login and the session cache      *)
(***************************************************************************)
\* what the site answers to a login. page is the GET of the login page
\* ("ok", "status" for a status other than 200, "error" for an exception
\* of the connection), csrf whether that page holds a CSRF token, post the
\* POST of the credentials. The other fields describe the text of a 200
\* answer to the POST: logout (it contains "logout" or "abmelden"),
\* reader_view (it contains "reader-view"), account_div (a div of class
\* reader-account or account-info), reader_div (a div of class
\* reader-content or reader-listing), error_div (the text of the first div
\* of class alert-danger, error-message or login-error, None without one),
\* alert_div (the text of the first div of class alert), form (a form with
\* action /reader/ or an input named username).
LoginResponse(page, csrf, post, logout, reader_view, account_div, reader_div, error_div, alert_div, form) ==
    [page |-> page, csrf |-> csrf, post |-> post, logout |-> logout,
     reader_view |-> reader_view, account_div |-> account_div,
     reader_div |-> reader_div, error_div |-> error_div, alert_div |-> alert_div,
     form |-> form]

\* _create_authenticated_session returns the session
AuthOk == [ok |-> TRUE, message |-> "", closed |-> FALSE]

\* _create_authenticated_session raises ConfigEntryAuthFailed(message): both
\* except clauses close the session before they raise
AuthFailed(message) == [ok |-> FALSE, message |-> message, closed |-> TRUE]

\* "Check for successful login indicators"
FoundIndicator_mut(resp) == resp.logout \/ resp.reader_view \/ resp.account_div

FoundIndicator(resp) ==
    resp.logout \/ resp.reader_view \/ resp.account_div \/ resp.reader_div

\* error_msg: the stripped text of the error container, of a div of class
\* alert when there is no error container; empty when there is no text
ErrorMsg(resp) ==
    IF resp.error_div # None THEN Val(resp.error_div)
    ELSE IF resp.alert_div # None THEN Val(resp.alert_div)
    ELSE ""

\* the message of a login without success indicator
LoginError(resp, error_msg) ==
    IF error_msg # "" THEN error_msg
    ELSE IF resp.form THEN "Still on login page - credentials may be incorrect"
    ELSE "Login response unclear - no success indicators found"

\* _create_authenticated_session on a new aiohttp session
create_authenticated_session(resp) ==
    IF resp.page = "error" THEN AuthFailed("Authentication failed")
    ELSE IF resp.page = "status" THEN AuthFailed("Failed to reach login page")
    ELSE IF ~resp.csrf THEN AuthFailed("Could not find CSRF token")
    ELSE IF resp.post = "error" THEN AuthFailed("Authentication failed")
    ELSE IF resp.post = "status" THEN AuthFailed("Login failed with status")
    ELSE IF FoundIndicator(resp) THEN AuthOk
    ELSE AuthFailed("Login failed: " \o LoginError(resp, ErrorMsg(resp)))

\* SESSION_TIMEOUT = timedelta(hours=1)
SESSION_TIMEOUT == 1

\* _is_session_valid
is_session_valid(session_data) == ~(now - session_data.created_at > SESSION_TIMEOUT)

\* the sessions the auth helpers have created and cached
Helper == [sessions |-> sessions, created |-> created, closed |-> closed]

\* async_get_authenticated_session after _create_authenticated_session has
\* answered for the new session id: "Cache the session"
CacheSession(h, account_id, id, res) ==
    [sessions |-> IF res.ok /\ account_id # None
                  THEN (Val(account_id) :> [session |-> id, created_at |-> now])
                       @@ h.sessions
                  ELSE h.sessions,
     created |-> id,
     closed |-> IF res.closed THEN h.closed \cup {id} ELSE h.closed,
     result |-> res,
     session |-> IF res.ok THEN Some(id) ELSE None,
     login |-> TRUE]

\* async_get_authenticated_session(username, password, account_id): the
\* cached session when it is valid, else a new login. Gives the helper
\* state afterwards, the session returned (None when it raised) and whether
\* a login was performed.
async_get_authenticated_session(h, account_id, resp) ==
    IF /\ account_id # None
       /\ Val(account_id) \in DOMAIN h.sessions
       /\ is_session_valid(h.sessions[Val(account_id)])
    THEN [sessions |-> h.sessions, created |-> h.created, closed |-> h.closed,
          result |-> AuthOk,
          session |-> Some(h.sessions[Val(account_id)].session),
          login |-> FALSE]
    ELSE CacheSession(h, account_id, h.created + 1, create_authenticated_session(resp))

(***************************************************************************)
(* The credential tests: a helper of its own, no account id                *)
(***************************************************************************)
\* the sessions that can be created in a run
MaxSessions == 3

ErrorTexts == {None, Some(""), Some("Falsches Passwort")}
AlertTexts == {None, Some("Bitte anmelden")}

\* the answers with a text to classify
TextResponses ==
    {LoginResponse("ok", TRUE, "ok", lo, rv, ad, rd, e, a, f) :
        lo \in BOOLEAN, rv \in BOOLEAN, ad \in BOOLEAN, rd \in BOOLEAN,
        e \in ErrorTexts, a \in AlertTexts, f \in BOOLEAN}

\* the answers that end the login before the classification
BrokenResponses ==
    {LoginResponse(page, csrf, post, FALSE, FALSE, FALSE, FALSE, None, None, TRUE) :
        page \in {"ok", "status", "error"}, csrf \in BOOLEAN,
        post \in {"ok", "status", "error"}}
    \ TextResponses

LoginResponses == TextResponses \cup BrokenResponses

\* history: a call of async_get_authenticated_session by caller op. probe is
\* the answer of the session probe before it ("none" without probe),
\* before the session the client held, cached_age the age of the cached
\* session of the account (None without one); new_session is the session
\* created in the call, 0 if none
AuthCall(op, account_id, resp, got, probe, before, cached_age) ==
    Some([op |-> op, account_id |-> account_id, response |-> resp,
          result |-> got.result, session |-> got.session,
          new_session |-> IF got.login THEN got.created ELSE 0,
          login |-> got.login, probe |-> probe, before |-> before,
          cached_age |-> cached_age, at |-> now])

\* validate_credentials (config_flow.py) closes the session it got;
\* test_account (account_manager.py) does not
CredentialTest(responses) ==
    \E resp \in responses, caller \in {"validate_credentials", "test_account"} :
        /\ created < MaxSessions
        /\ \E got \in {async_get_authenticated_session(Helper, None, resp)} :
              /\ sessions' = got.sessions
              /\ created' = got.created
              /\ closed' = IF got.result.ok /\ caller = "validate_credentials"
                           THEN got.closed \cup {Val(got.session)}
                           ELSE got.closed
              /\ authLog' = AuthCall(caller, None, resp, got, "none", None, None)
        /\ UNCHANGED <<now, rulesVars, siteVars, parsed, apiVars, coordVars, held>>

InitLogin ==
    /\ now = 24 * FirstDay
    /\ storage = NoFile
    /\ rules = load_rules(storage)
    /\ fresh = None
    /\ lastObs = [l \in Libs |-> None]
    /\ saved = FALSE
    /\ parsed = None
    /\ mainPage = NoPages /\ familyPage = NoPages /\ reservationPages = NoPages
    /\ apis = NoApis
    /\ useBrowser = FALSE /\ hasPlaywright = FALSE
    /\ fetchLog = None /\ renewLog = None /\ reservedLog = None /\ dateLog = None
    /\ InitNoCoordinator
    /\ InitNoSessions

NextLogin == CredentialTest(LoginResponses)

SpecLogin == InitLogin /\ [][NextLogin]_vars

(***************************************************************************)
(* The API clients of two accounts, each with an auth helper of its own    *)
(***************************************************************************)
\* the hours a run covers
MaxAuthHours == 3

AuthAccounts == {Acc687, Acc689}

LoggedInPage ==
    LoginResponse("ok", TRUE, "ok", TRUE, FALSE, FALSE, FALSE, None, None, FALSE)

LoginFormPage ==
    LoginResponse("ok", TRUE, "ok", FALSE, FALSE, FALSE, FALSE, None, None, TRUE)

\* the answers of the site to the logins of the clients
ClientResponses == {LoggedInPage, LoginFormPage}

\* _login after async_get_authenticated_session: the helper raised, or the
\* GET of the login page for the CSRF token succeeds or raises
LoginOutcome(got, csrf_ok) ==
    IF got.session = None THEN "auth_failed"
    ELSE IF csrf_ok THEN "ok" ELSE "csrf_error"

\* _ensure_logged_in returns after a successful probe: no call of the helper
Probed(session) ==
    [sessions |-> sessions, created |-> created, closed |-> closed,
     result |-> AuthOk, session |-> session, login |-> FALSE]

\* the age of the cached session of an account, None without one
CachedAge(a) ==
    IF a \in DOMAIN sessions THEN Some(now - sessions[a].created_at) ELSE None

HeldBy(a) == IF a \in DOMAIN held THEN held[a] ELSE None

\* BibKatAPI._ensure_logged_in of the client of account a: probe_ok is
\* the answer of async_validate_session for the session held, resp the
\* answer of the site to a login, csrf_ok the GET for the CSRF token
EnsureLoggedIn(responses) ==
    \E a \in DOMAIN apis, probe_ok \in BOOLEAN, resp \in responses, csrf_ok \in BOOLEAN :
        IF apis[a].logged_in_internal /\ apis[a].session /\ probe_ok
        THEN /\ Val(held[a]) \notin closed
             /\ resp = LoggedInPage /\ csrf_ok
             /\ authLog' = AuthCall("_ensure_logged_in", Some(a), resp,
                                    Probed(held[a]), "ok", held[a], CachedAge(a))
             /\ UNCHANGED <<now, rulesVars, siteVars, parsed, apiVars, coordVars,
                            sessions, created, closed, held>>
        ELSE \E got \in {async_get_authenticated_session(Helper, Some(a), resp)} :
                /\ (apis[a].logged_in_internal /\ apis[a].session) \/ probe_ok
                /\ got.login => created < MaxSessions
                /\ ~got.login => resp = LoggedInPage
                /\ got.session = None => csrf_ok
                /\ sessions' = got.sessions
                /\ created' = got.created
                /\ closed' = got.closed
                /\ held' = IF got.session # None THEN (a :> got.session) @@ held ELSE held
                /\ apis' = [apis EXCEPT ![a] =
                               ensure_logged_in(@, probe_ok, LoginOutcome(got, csrf_ok)).api]
                /\ authLog' = AuthCall("_ensure_logged_in", Some(a), resp, got,
                                       IF apis[a].logged_in_internal /\ apis[a].session
                                       THEN "failed" ELSE "none",
                                       HeldBy(a), CachedAge(a))
                /\ UNCHANGED <<now, rulesVars, siteVars, parsed, useBrowser, hasPlaywright,
                               fetchLog, renewLog, reservedLog, dateLog, coordVars>>

\* async_unload_entry: the coordinator with its clients and their helpers
\* is dropped; async_cleanup is not called and no session is closed
Unload ==
    /\ apis # NoApis
    /\ apis' = NoApis
    /\ sessions' = [a \in {} |-> None]
    /\ held' = [a \in {} |-> None]
    /\ UNCHANGED <<now, rulesVars, siteVars, parsed, useBrowser, hasPlaywright,
                   fetchLog, renewLog, reservedLog, dateLog, coordVars, created, closed, authLog>>

\* an hour passes
AuthAdvance ==
    /\ now < 24 * FirstDay + MaxAuthHours
    /\ now' = now + 1
    /\ UNCHANGED <<rulesVars, siteVars, parsed, apiVars, coordVars, authVars>>

InitAuth ==
    /\ now = 24 * FirstDay
    /\ storage = NoFile
    /\ rules = load_rules(storage)
    /\ fresh = None
    /\ lastObs = [l \in Libs |-> None]
    /\ saved = FALSE
    /\ parsed = None
    /\ mainPage = NoPages /\ familyPage = NoPages /\ reservationPages = NoPages
    /\ apis = [a \in AuthAccounts |-> NewApi]
    /\ useBrowser = FALSE /\ hasPlaywright = FALSE
    /\ fetchLog = None /\ renewLog = None /\ reservedLog = None /\ dateLog = None
    /\ InitNoCoordinator
    /\ InitNoSessions

NextAuth ==
    \/ EnsureLoggedIn(ClientResponses)
    \/ CredentialTest(ClientResponses)
    \/ Unload
    \/ AuthAdvance

SpecAuth == InitAuth /\ [][NextAuth]_vars

\* the listings of the two pages as the parser reads them
MainListing == get_media_from_page(mainPage[Client], "main", "ok", rules)
FamilyListing == get_media_from_page(familyPage[Client], "family", "ok", rules)

BothFetched ==
    /\ fetchLog # None
    /\ Val(fetchLog).logged_in /\ Val(fetchLog).main_ok /\ Val(fetchLog).family_ok

\* C1: when the main listing and the family listing each hold one item
\* with a media id, the merged list holds exactly one item with the id and
\* its found_on is {main, family}.
Thm_C1 ==
    BothFetched =>
        \A id \in {1, 2, 3} :
            (Cardinality(Having(MainListing, id)) = 1
                /\ Cardinality(Having(FamilyListing, id)) = 1) =>
                /\ Cardinality(Having(Val(fetchLog).media, id)) = 1
                /\ \A i \in Having(Val(fetchLog).media, id) :
                      Elems(Val(fetchLog).media[i].found_on) = {"main", "family"}

Wit_C1 ==
    /\ BothFetched
    /\ Cardinality(Having(MainListing, 1)) = 1
    /\ Cardinality(Having(FamilyListing, 1)) = 1
    /\ Len(Val(fetchLog).media) = 2
    /\ Val(fetchLog).media[1].found_on = <<"main", "family">>

\* C2: the list returned by get_borrowed_media holds every media id at
\* most once, also when a page lists an id more than once.
Cex_C2 ==
    fetchLog # None =>
        \A id \in {1, 2, 3} : Cardinality(Having(Val(fetchLog).media, id)) <= 1

\* C3: in the output of every fetch cycle no media id occurs twice in
\* all_media, also when two configured accounts of one family see the same
\* loan.
Cex_C3 ==
    data # None =>
        \A id \in MediaIds : Cardinality(Having(Val(data).all_media, id)) <= 1

\* C4: in every item of a fetch result, renewable = False implies
\* is_renewable_now = False.
Cex_C4 ==
    fetchLog # None =>
        \A i \in 1..Len(Val(fetchLog).media) :
            ~Val(fetchLog).media[i].renewable => ~Val(fetchLog).media[i].is_renewable_now

\* a renew_media call that found the item and took the date extraction
DateExtraction ==
    /\ renewLog # None
    /\ Val(renewLog).media_info # None
    /\ ~Val(Val(renewLog).media_info).is_renewable_now

\* a renew_media call that found the item and took the renewal protocol
RenewalAttempt ==
    /\ renewLog # None
    /\ Val(renewLog).media_info # None
    /\ Val(Val(renewLog).media_info).is_renewable_now

\* C8: renew_media on an item that is not renewable now and has a parsed
\* due date, with no rule stored and the browser disabled or unavailable,
\* returns a failure that carries source "fallback" and the date due - 6,
\* and sends no request to the renewal endpoint.
Thm_C8 ==
    (/\ DateExtraction
     /\ Val(Val(renewLog).media_info).due_date_iso # None
     /\ Val(renewLog).offset_before = None
     /\ ~(useBrowser /\ hasPlaywright)) =>
        /\ ~Val(renewLog).result.success
        /\ Val(renewLog).result.source = "fallback"
        /\ Val(renewLog).result.renewal_date_iso
              = Some(Val(Val(Val(renewLog).media_info).due_date_iso) - 6)
        /\ Val(renewLog).requests = <<>>

Wit_C8 ==
    /\ DateExtraction
    /\ Val(renewLog).media_id = 2
    /\ Val(renewLog).offset_before = None
    /\ useBrowser /\ ~hasPlaywright
    /\ Val(renewLog).result.renewal_date_iso = Some(224)

\* C9: for an item that is not renewable now the date comes from the
\* browser probe when it is enabled, available and delivers one (source
\* "browser", also with a stored rule); else from the stored rule (source
\* "rules", due date minus the stored offset); the 6-day fallback is used
\* only when neither yields a date.
Thm_C9 ==
    DateExtraction =>
        LET log == Val(renewLog)
            due == Val(log.media_info).due_date_iso
            delivers == /\ useBrowser /\ hasPlaywright
                        /\ log.env.browser.success
                        /\ log.env.browser.renewal_date_iso # None
        IN  /\ delivers =>
                  /\ log.result.source = "browser"
                  /\ log.result.renewal_date_iso = log.env.browser.renewal_date_iso
            /\ (~delivers /\ log.offset_before # None /\ due # None) =>
                  /\ log.result.source = "rules"
                  /\ log.result.renewal_date_iso = Some(Val(due) - Val(log.offset_before))
            /\ log.result.source = "fallback" =>
                  /\ ~delivers /\ log.offset_before = None
                  /\ log.result.renewal_date_iso = Some(Val(due) - 6)

Wit_C9 ==
    /\ DateExtraction
    /\ Val(renewLog).offset_before = Some(6)
    /\ Val(renewLog).result.source = "browser"
    /\ Val(renewLog).result.renewal_date_iso = Some(222)

\* C10: the POST for a media id is sent only after the GET of the dialog
\* for the same id returned status 200 and a successful envelope that
\* offers a POST renew action; otherwise the attempt fails and no POST is
\* sent; the final success is the status flag of the envelope the POST
\* returned.
Thm_C10 ==
    RenewalAttempt =>
        LET log == Val(renewLog)
            offered == log.env.get.kind = "json" /\ log.env.get.success /\ log.env.get.action
            posted == \E i \in 1..Len(log.requests) : log.requests[i].method = "POST"
        IN  /\ posted =>
                  /\ log.requests = <<Request("GET", log.media_id), Request("POST", log.media_id)>>
                  /\ offered
            /\ ~offered => (~log.result.success /\ ~posted)
            /\ posted =>
                  (log.result.success <=> (log.env.post.kind = "json" /\ log.env.post.success))

Wit_C10 ==
    /\ RenewalAttempt
    /\ Len(Val(renewLog).requests) = 2
    /\ Val(renewLog).result.success

\* C5: after a due date D and a renewal-open date R were observed for a
\* library, predict(library, d) is d - (D - R) for every due date d, so
\* d - 10 after observing R = D - 10; a library without a rule predicts none.
Thm_C5 ==
    \A lib \in Libs :
        /\ lastObs[lib] # None =>
             \A d \in PredictDue :
                calculate_renewal_date(rules, lib, d)
                    = Some(d - (Val(lastObs[lib])[1] - Val(lastObs[lib])[2]))
        /\ lib \notin DOMAIN rules =>
             \A d \in PredictDue : calculate_renewal_date(rules, lib, d) = None

Wit_C5 ==
    /\ lastObs["libA"] = Some(<<215, 205>>)
    /\ calculate_renewal_date(rules, "libA", 230) = Some(220)
    /\ "libB" \notin DOMAIN rules

\* C6: when update_rules has written the rule file, a new manager that
\* loads the file holds the same libraries with the same offset_days.
Thm_C6 ==
    (fresh # None /\ saved) =>
        /\ DOMAIN Val(fresh) = DOMAIN rules
        /\ \A lib \in DOMAIN rules :
              Val(fresh)[lib].renewal_offset_days = rules[lib].renewal_offset_days

Wit_C6 ==
    /\ fresh # None /\ saved
    /\ DOMAIN rules = Libs
    /\ rules["libA"].renewal_offset_days = 10
    /\ rules["libB"].renewal_offset_days = -1

\* C11: async_renew_media returns a result dict and does not raise, also
\* when it is called before a fetch cycle has produced data: no call of the
\* daily renewal date check ends in an exception.
Cex_C11 ==
    cycleLog # None =>
        \A i \in 1..Len(Val(cycleLog).calls) : ~Val(cycleLog).calls[i].raised

\* C12: a login whose POST is answered with a page succeeds iff the page
\* holds a logout marker, an account page marker or a reader content
\* marker; otherwise it fails with the text of the error container when one
\* with text is there, else with "Still on login page" when the login form
\* is there, else with "Login response unclear"; the session of every
\* failed login is closed.
Thm_C12 ==
    (authLog # None /\ Val(authLog).login) =>
        LET resp == Val(authLog).response
            res == Val(authLog).result
            text == IF resp.error_div # None THEN Val(resp.error_div)
                    ELSE IF resp.alert_div # None THEN Val(resp.alert_div)
                    ELSE ""
        IN  /\ resp \in TextResponses =>
                /\ res.ok <=> \/ resp.logout
                              \/ resp.account_div
                              \/ resp.reader_view \/ resp.reader_div
                /\ (~res.ok /\ text # "") => res.message = "Login failed: " \o text
                /\ (~res.ok /\ text = "" /\ resp.form) =>
                       res.message
                           = "Login failed: Still on login page - credentials may be incorrect"
                /\ (~res.ok /\ text = "" /\ ~resp.form) =>
                       res.message
                           = "Login failed: Login response unclear - no success indicators found"
            /\ ~res.ok => Val(authLog).new_session \in closed

Wit_C12 ==
    /\ authLog # None /\ Val(authLog).login
    /\ Val(authLog).response
           = LoginResponse("ok", TRUE, "ok", FALSE, FALSE, FALSE, FALSE, None, None, TRUE)
    /\ ~Val(authLog).result.ok
    /\ Val(authLog).result.message
           = "Login failed: Still on login page - credentials may be incorrect"
    /\ Val(authLog).new_session \in closed

\* C13: a call of async_get_authenticated_session for an account with a
\* cached session returns the cached session without a login exactly when
\* now - created_at < SESSION_TIMEOUT; from the age of the timeout on it
\* logs in again.
Cex_C13 ==
    (/\ authLog # None
     /\ Val(authLog).op = "_ensure_logged_in"
     /\ Val(authLog).probe # "ok"
     /\ Val(authLog).cached_age # None) =>
        (Val(authLog).login <=> Val(Val(authLog).cached_age) >= SESSION_TIMEOUT)

\* C14: a cached session that fails the probe before its timeout is closed
\* and evicted, and the client goes on with a newly created session, never
\* with the one that failed the probe.
Cex_C14 ==
    (/\ authLog # None
     /\ Val(authLog).probe = "failed"
     /\ Val(authLog).cached_age # None
     /\ Val(Val(authLog).cached_age) < SESSION_TIMEOUT) =>
        /\ Val(Val(authLog).before) \in closed
        /\ \A a \in DOMAIN sessions : sessions[a].session # Val(Val(authLog).before)
        /\ Val(authLog).session # Val(authLog).before

\* C15: no session that was created stays open unless it is the cached
\* session of its account: replaced and probed-out sessions are closed, the
\* credential tests and the unload leave no session open.
Cex_C15 ==
    \A id \in 1..created :
        \/ id \in closed
        \/ \E a \in DOMAIN sessions : sessions[a].session = id

\* the positions of a fetch result whose detail page was requested, and
\* those of its renewable items with a detail page
Requested(log) == {i \in 1..Len(log.detail_requests) : log.detail_requests[i]}

RenewableItems(log) ==
    {i \in 1..Len(log.media) : log.media[i].renewable /\ log.media[i].detail_url}

\* C16: the first fetch of a client requests the detail pages of its
\* renewable items, and so does a fetch 25 hours after the fetch before
\* it; a fetch one hour after a fetch that requested detail pages requests
\* none.
Thm_C16 ==
    [][(fetchLog' # None /\ fetchLog' # fetchLog /\ Val(fetchLog').logged_in) =>
          /\ fetchLog = None =>
                Requested(Val(fetchLog')) = RenewableItems(Val(fetchLog'))
          /\ (fetchLog # None /\ Val(fetchLog).logged_in
              /\ Val(fetchLog').at - Val(fetchLog).at = 25) =>
                Requested(Val(fetchLog')) = RenewableItems(Val(fetchLog'))
          /\ (fetchLog # None /\ Val(fetchLog).logged_in
              /\ Requested(Val(fetchLog)) # {}
              /\ Val(fetchLog').at - Val(fetchLog).at = 1) =>
                Requested(Val(fetchLog')) = {}]_vars

\* a fetch one hour after the full detail fetch: loan 1 is renewable and
\* its detail page is not requested
Wit_C16 ==
    /\ fetchLog # None /\ Val(fetchLog).logged_in
    /\ Val(fetchLog).at = 24 * FirstDay + 1
    /\ apis[Client].last_full_detail_fetch = Some(24 * FirstDay)
    /\ RenewableItems(Val(fetchLog)) # {}
    /\ Requested(Val(fetchLog)) = {}

\* C17: detail pages are fetched in at most one pass per 24 hours over all
\* accounts: in a cycle at most one account requests detail pages.
Cex_C17 ==
    cycleLog # None =>
        Cardinality({r.account_id : r \in Elems(Val(cycleLog).detail_requests)}) <= 1

\* the loans the site lists for the login of an account, and the
\* reservations it shows
SiteLoans(a) ==
    {e.id : e \in {x \in Elems(mainPage[a].elems) \cup Elems(familyPage[a].elems) :
                      x.tag = "item"}}

SiteReservations == CHOOSE l \in ReservationLists : TRUE

\* the entries of the cycle output under a key
EntriesOf(key) ==
    {i \in 1..Len(Val(data).accounts) : Val(data).accounts[i].key = key}

\* the cycle ended with an entry for the account that holds every loan the
\* site lists for it
LoansComplete(acc) ==
    \E i \in EntriesOf(acc.id) :
        {m.media_id : m \in Elems(Val(data).accounts[i].borrowed_media)} = SiteLoans(acc.id)

\* ... and every reservation the site shows for its reader number
ReservationsComplete(acc) ==
    \E i \in EntriesOf(acc.id) :
        \A r \in Elems(SiteReservations) :
            r.owner_number = Some(acc.username) =>
                r.reservation_id
                    \in {x.reservation_id : x \in Elems(Val(data).accounts[i].reservations)}

\* C18: when a step fails for one enabled account, the output of the cycle
\* holds the complete results, loans and reservations, of every enabled
\* account that met no failure, wherever the failing account stands.
Cex_C18 ==
    cycleLog # None =>
        \A j \in 1..Len(accounts) :
            (accounts[j].enabled /\ Val(cycleLog).faults[j] = "none") =>
                LoansComplete(accounts[j]) /\ ReservationsComplete(accounts[j])

\* the part of C18 about the loans
LoansIsolated ==
    cycleLog # None =>
        \A j \in 1..Len(accounts) :
            (accounts[j].enabled /\ Val(cycleLog).faults[j] = "none") =>
                LoansComplete(accounts[j])

\* the enabled accounts whose login succeeded in the last cycle, by position
PassedLogin ==
    {j \in 1..Len(accounts) :
        accounts[j].enabled /\ Val(cycleLog).faults[j] # "auth_failed"}

\* the account that fetched the reservations: the first that passed
Fetcher == CHOOSE j \in PassedLogin : \A k \in PassedLogin : j <= k

\* the bucket a reservation belongs to
ExpectedKey(r) ==
    IF r.owner_number = None THEN accounts[Fetcher].id
    ELSE IF \E j \in 1..Len(accounts) : accounts[j].username = Val(r.owner_number)
    THEN accounts[CHOOSE j \in 1..Len(accounts) :
                      accounts[j].username = Val(r.owner_number)].id
    ELSE Val(r.owner_number)

\* the places <<bucket, position>> of _shared_reservations that hold a
\* reservation id
PlacesOf(reservation_id) ==
    {p \in {<<k, i>> : k \in 1..Len(shared_reservations), i \in 1..Len(SiteReservations)} :
        /\ p[2] <= Len(shared_reservations[p[1]].items)
        /\ shared_reservations[p[1]].items[p[2]].reservation_id = reservation_id}

\* C19: a cycle fetches the reservations at most once, and once in every
\* cycle in which an account passes its login; every fetched reservation is
\* in exactly one bucket: that of the configured account with its owner
\* number as username, else that of the owner number, and that of the
\* fetching account when it has no owner number.
Thm_C19 ==
    cycleLog # None =>
        /\ Val(cycleLog).reservation_fetches <= 1
        /\ PassedLogin # {} =>
              /\ Val(cycleLog).reservation_fetches = 1
              /\ Val(cycleLog).faults[Fetcher] # "reservations_failed" =>
                    \A r \in Elems(SiteReservations) :
                        /\ Cardinality(PlacesOf(r.reservation_id)) = 1
                        /\ \A p \in PlacesOf(r.reservation_id) :
                              shared_reservations[p[1]].key = ExpectedKey(r)

\* the second cycle, an hour after the first, has fetched the reservations
\* again: reservation 11 without owner is with the fetching account 687,
\* reservation 12 with the configured reader 689, 13 under the number 690
Wit_C19 ==
    /\ cycleLog # None
    /\ last_renewal_date_fetch = Some(24 * FirstDay)
    /\ Val(cycleLog).at = 24 * FirstDay + 1
    /\ Val(cycleLog).faults = <<"none", "none">>
    /\ Val(cycleLog).reservation_fetches = 1
    /\ [k \in 1..Len(shared_reservations) |-> shared_reservations[k].key]
           = <<Acc687, Acc689, "690">>
    /\ \A k \in 1..3 : Len(shared_reservations[k].items) = 1
    /\ shared_reservations[1].items[1].reservation_id = 11
    /\ shared_reservations[2].items[1].reservation_id = 12
    /\ shared_reservations[3].items[1].reservation_id = 13
    /\ ~shared_reservations[3].items[1].is_configured

\* the reader number of the heading above an element of a family page
OwnerAt(elems, i) ==
    IF \E h \in 1..(i - 1) : elems[h].tag = "h4"
    THEN elems[CHOOSE h \in 1..(i - 1) :
                   /\ elems[h].tag = "h4"
                   /\ \A k \in (h + 1)..(i - 1) : elems[k].tag # "h4"].konto
    ELSE None

\* no configured account, enabled or not, has the number as username
NotConfigured(owner_number) ==
    \A j \in 1..Len(accounts) : accounts[j].username # owner_number

\* the enabled accounts that read their family page in the last cycle
ReadFamilyPage ==
    {j \in 1..Len(accounts) :
        /\ accounts[j].enabled
        /\ Val(cycleLog).faults[j] \in {"none", "reservations_failed"}}

\* the output has an unconfigured entry under the number with the loan
LoanSurfaced(owner_number, media_id) ==
    \E e \in EntriesOf(owner_number) :
        /\ ~Val(data).accounts[e].is_configured
        /\ \E m \in Elems(Val(data).accounts[e].borrowed_media) :
              m.media_id = media_id /\ ~m.is_configured

\* ... with the reservation
ReservationSurfaced(owner_number, reservation_id) ==
    \E e \in EntriesOf(owner_number) :
        /\ ~Val(data).accounts[e].is_configured
        /\ \E x \in Elems(Val(data).accounts[e].reservations) :
              x.reservation_id = reservation_id /\ ~x.is_configured

\* C20: every loan a cycle read from a family page and every reservation
\* it fetched whose owner number is the username of no configured account
\* is in the output of the cycle, in an entry under that owner number with
\* is_configured = False.
Thm_C20 ==
    cycleLog # None =>
        /\ \A j \in ReadFamilyPage :
              \A i \in 1..Len(familyPage[accounts[j].id].elems) :
                  (/\ familyPage[accounts[j].id].elems[i].tag = "item"
                   /\ OwnerAt(familyPage[accounts[j].id].elems, i) # None
                   /\ NotConfigured(Val(OwnerAt(familyPage[accounts[j].id].elems, i))))
                  => LoanSurfaced(Val(OwnerAt(familyPage[accounts[j].id].elems, i)),
                                  familyPage[accounts[j].id].elems[i].id)
        /\ (PassedLogin # {} /\ Val(cycleLog).faults[Fetcher] # "reservations_failed") =>
              \A r \in Elems(SiteReservations) :
                  (r.owner_number # None /\ NotConfigured(Val(r.owner_number)))
                  => ReservationSurfaced(Val(r.owner_number), r.reservation_id)

\* a cycle ended with loan 4 and reservation 13 of reader 690, who has no
\* account, in an entry "690"
Wit_C20 ==
    /\ cycleLog # None
    /\ NotConfigured("690")
    /\ \E i \in 1..Len(familyPage[Acc687].elems) :
          /\ familyPage[Acc687].elems[i] = Loan4
          /\ OwnerAt(familyPage[Acc687].elems, i) = Some("690")
    /\ LoanSurfaced("690", 4)
    /\ ReservationSurfaced("690", 13)
    /\ Cardinality(EntriesOf("690")) = 1

\* C21: after _extract_renewal_date returned a date with source "browser"
\* for an item with a due date, the stored rule of the library has the
\* offset due date minus that date.
Cex_C21 ==
    (/\ DateExtraction
     /\ Val(renewLog).result.source = "browser"
     /\ Val(Val(renewLog).media_info).due_date_iso # None)
    => get_renewal_offset_days(rules, ApiLib)
           = Some(Val(Val(Val(renewLog).media_info).due_date_iso)
                      - Val(Val(renewLog).result.renewal_date_iso))

\* the part that holds: an offset the browser reports is stored as the rule
BrowserOffsetLearned ==
    (/\ DateExtraction
     /\ Val(renewLog).result.source = "browser"
     /\ Val(renewLog).env.browser.renewal_offset_days # None)
    => get_renewal_offset_days(rules, ApiLib) = Val(renewLog).env.browser.renewal_offset_days

\* the browser delivered the date of loan 1, which shows the renew action
\* and is due on "25. Juli", without an offset, and the library has no
\* rule afterwards
BrowserDateNotLearned ==
    /\ DateExtraction
    /\ Val(renewLog).media_id = 1
    /\ Val(Val(renewLog).media_info).renewable
    /\ Val(renewLog).result.source = "browser"
    /\ Val(renewLog).result.renewal_date_iso = Some(203)
    /\ Val(Val(renewLog).media_info).due_date_iso = Some(205)
    /\ get_renewal_offset_days(rules, ApiLib) = None

\* the items of the last fetch whose detail page was requested and stated
\* a renewal-open date, and whose due date is known
Revealed ==
    {i \in 1..Len(Val(fetchLog).media) :
        /\ Val(fetchLog).detail_requests[i]
        /\ Val(fetchLog).media[i].renewal_date_iso # None
        /\ Val(fetchLog).media[i].due_date_iso # None}

\* C22: when the detail fetch of get_borrowed_media revealed the
\* renewal-open date of an item with a known due date, the rule of the
\* library has the offset due date minus renewal-open date of such an item.
Cex_C22 ==
    (fetchLog # None /\ Revealed # {}) =>
        \E i \in Revealed :
            get_renewal_offset_days(rules, ApiLib)
                = Some(Val(Val(fetchLog).media[i].due_date_iso)
                           - Val(Val(fetchLog).media[i].renewal_date_iso))

\* the detail page of loan 1, due on day 205, stated day 199, and the
\* library has no rule
DetailDateNotLearned ==
    /\ fetchLog # None
    /\ \E i \in Revealed :
          /\ Val(fetchLog).media[i].media_id = 1
          /\ Val(fetchLog).media[i].due_date_iso = Some(205)
          /\ Val(fetchLog).media[i].renewal_date_iso = Some(199)
    /\ get_renewal_offset_days(rules, ApiLib) = None
    /\ storage = NoFile

\* the reservations _parse_reservations_page found on a page before it
\* removed the duplicates; none when the page was not parsed
SeenOn(page) ==
    IF page.http = "ok" /\ (page.marker \/ (page.link /\ page.link_http = "ok"))
    THEN FoundReservations(page.content)
    ELSE <<>>

\* a list holds the reservation id with an owner number
WithOwner(list, reservation_id) ==
    \E k \in 1..Len(list) :
        list[k].reservation_id = reservation_id /\ list[k].owner_number # None

\* C23: a reservation id that get_reserved_media saw with an owner number,
\* on the account page or on the family page, is returned with an owner
\* number, also when it was seen without one first.
Cex_C23 ==
    (reservedLog # None /\ Val(reservedLog).logged_in) =>
        \A k \in 1..Len(Val(reservedLog).result) :
            (\/ WithOwner(SeenOn(reservationPages[Client].main),
                          Val(reservedLog).result[k].reservation_id)
             \/ WithOwner(SeenOn(reservationPages[Client].family),
                          Val(reservedLog).result[k].reservation_id))
            => Val(reservedLog).result[k].owner_number # None

\* the part that holds: within one page the version with the owner is kept
OwnerKeptWithinPage ==
    (reservedLog # None /\ Val(reservedLog).logged_in) =>
        /\ \A k \in 1..Len(Val(reservedLog).main) :
              WithOwner(SeenOn(reservationPages[Client].main),
                        Val(reservedLog).main[k].reservation_id)
              => Val(reservedLog).main[k].owner_number # None
        /\ \A k \in 1..Len(Val(reservedLog).family) :
              WithOwner(SeenOn(reservationPages[Client].family),
                        Val(reservedLog).family[k].reservation_id)
              => Val(reservedLog).family[k].owner_number # None

\* reservation 12 came without owner from the account page and with owner
\* 689 from the family page, and is returned without owner
OwnerLostAcrossPages ==
    /\ reservedLog # None /\ Val(reservedLog).logged_in
    /\ \E k \in 1..Len(Val(reservedLog).main) :
          Val(reservedLog).main[k] = ReservationInfo(12, None)
    /\ \E k \in 1..Len(Val(reservedLog).family) :
          Val(reservedLog).family[k] = ReservationInfo(12, Some("689"))
    /\ \E k \in 1..Len(Val(reservedLog).result) :
          /\ Val(reservedLog).result[k].reservation_id = 12
          /\ Val(reservedLog).result[k].owner_number = None
          /\ Val(reservedLog).result[k].found_on = <<"main", "family">>

\* within the account page reservation 11 was seen with owner 687 and,
\* by the traditional parsing, without; the one with the owner is kept
OwnerKeptOnMainPage ==
    /\ reservedLog # None /\ Val(reservedLog).logged_in
    /\ \E k \in 1..Len(SeenOn(reservationPages[Client].main)) :
          SeenOn(reservationPages[Client].main)[k] = ReservationInfo(11, None)
    /\ \E k \in 1..Len(Val(reservedLog).main) :
          Val(reservedLog).main[k] = ReservationInfo(11, Some("687"))

\* the year the claim asks for: the current year, or the next one when
\* the day of the current year lies more than 60 days before today
ExpectedYear(text, current_year) ==
    IF today - Date(current_year, text.month, text.day) > 60
    THEN current_year + 1
    ELSE current_year

\* the result is the day and month of the text in the expected year, and
\* not more than 60 days in the past
AsClaimed(text, result, current_year) ==
    /\ result # None
    /\ isoformat(Val(result)) = <<ExpectedYear(text, current_year), text.month, text.day>>
    /\ today - Val(result) <= 60

\* C24: for every text "<day>. <Month>" and every current date,
\* parse_german_date returns the day and month of the text in the current
\* year, or in the next year when that lies more than 60 days before
\* today; the result is never more than 60 days in the past.
Cex_C24 ==
    dateLog # None =>
        AsClaimed(Val(dateLog).text, Val(dateLog).result, isoformat(today)[1])

\* the part that holds: every day and month but 29 February
ExceptLeapDay ==
    (dateLog # None /\ Val(dateLog).text # NameDate(29, 2)) =>
        AsClaimed(Val(dateLog).text, Val(dateLog).result, isoformat(today)[1])

\* in December of the year before the leap year, "29. Februar" is not
\* parsed
LeapDayNotParsed ==
    /\ dateLog # None
    /\ isoformat(today) = <<FirstParseYear, 12, 31>>
    /\ Val(dateLog).text = NameDate(29, 2)
    /\ Val(dateLog).result = None

\* on 20 December "5. Januar" is taken as a day of the next year
NextYearTaken ==
    /\ dateLog # None
    /\ isoformat(today) = <<FirstParseYear, 12, 20>>
    /\ Val(dateLog).text = NameDate(5, 1)
    /\ Val(dateLog).result # None
    /\ isoformat(Val(Val(dateLog).result)) = <<FirstParseYear + 1, 1, 5>>

\* C25: in the list get_borrowed_media returns, every item whose listing
\* block shows the renew action (renewable, set from the marker alone) is
\* renewable now, also after the detail fetch of the same call.
Cex_C25 ==
    (fetchLog # None /\ Val(fetchLog).logged_in) =>
        \A i \in 1..Len(Val(fetchLog).media) :
            Val(fetchLog).media[i].renewable => Val(fetchLog).media[i].is_renewable_now

\* the part that holds: an item with the renew action whose detail page
\* was not requested is renewable now
RenewableNowWithoutDetails ==
    (fetchLog # None /\ Val(fetchLog).logged_in) =>
        \A i \in 1..Len(Val(fetchLog).media) :
            (Val(fetchLog).media[i].renewable /\ ~Val(fetchLog).detail_requests[i])
            => Val(fetchLog).media[i].is_renewable_now

\* loan 1 shows the renew action on the account page; its detail page was
\* requested and the returned dict says it is not renewable now
DetailFetchClearsRenewableNow ==
    /\ fetchLog # None /\ Val(fetchLog).logged_in
    /\ \E k \in 1..Len(mainPage[Client].elems) : mainPage[Client].elems[k] = Loan1(TRUE)
    /\ \E i \in 1..Len(Val(fetchLog).media) :
          /\ Val(fetchLog).media[i].media_id = 1
          /\ Val(fetchLog).media[i].renewable
          /\ Val(fetchLog).detail_requests[i]
          /\ ~Val(fetchLog).media[i].is_renewable_now
          /\ Val(fetchLog).media[i].renewal_date_iso = None

\* the renew_media calls of the last bulk renewal that sent a request to
\* the renewal endpoint, by position
Attempted ==
    {i \in 1..Len(Val(renewAllLog).attempts) : Val(renewAllLog).attempts[i].requests # <<>>}

\* the loan of an attempt belongs to the account: it stands on the
\* account's own page, or under the header of its reader number
OwnedBy(attempt, account_id) ==
    /\ attempt.account_id = account_id
    /\ \/ attempt.owner_number = None
       \/ \E j \in 1..Len(accounts) :
             accounts[j].id = account_id /\ attempt.owner_number = Some(accounts[j].username)

\* C26: during one async_renew_all_media no media id gets more than one
\* renewal attempt, and with an account_id only loans of that account are
\* attempted.
Cex_C26 ==
    renewAllLog # None =>
        /\ \A i \in Attempted : \A j \in Attempted :
              Val(renewAllLog).attempts[i].media_id = Val(renewAllLog).attempts[j].media_id
              => i = j
        /\ Val(renewAllLog).account_id # None =>
              \A i \in Attempted :
                  OwnedBy(Val(renewAllLog).attempts[i], Val(Val(renewAllLog).account_id))

\* the part that holds: the client of one account attempts a media id once,
\* and with an account_id only the client of that account renews
OncePerClient ==
    renewAllLog # None =>
        /\ \A i \in Attempted : \A j \in Attempted :
              (/\ Val(renewAllLog).attempts[i].media_id = Val(renewAllLog).attempts[j].media_id
               /\ Val(renewAllLog).attempts[i].account_id
                      = Val(renewAllLog).attempts[j].account_id)
              => i = j
        /\ Val(renewAllLog).account_id # None =>
              \A i \in Attempted :
                  Val(renewAllLog).attempts[i].account_id = Val(Val(renewAllLog).account_id)

\* renew_all without account: loan 1 was renewed through the client of
\* account 687 and again through the client of account 689
LoanRenewedTwice ==
    /\ renewAllLog # None
    /\ Val(renewAllLog).account_id = None
    /\ \E i \in Attempted : \E j \in Attempted :
          /\ Val(renewAllLog).attempts[i].media_id = 1
          /\ Val(renewAllLog).attempts[i].account_id = Acc687
          /\ Len(Val(renewAllLog).attempts[i].requests) = 2
          /\ Val(renewAllLog).attempts[j].media_id = 1
          /\ Val(renewAllLog).attempts[j].account_id = Acc689
          /\ Len(Val(renewAllLog).attempts[j].requests) = 2

\* renew_all(boehl_689) renewed loan 1 of reader 687
ForeignLoanRenewed ==
    /\ renewAllLog # None
    /\ Val(renewAllLog).account_id = Some(Acc689)
    /\ \E i \in Attempted :
          /\ Val(renewAllLog).attempts[i].media_id = 1
          /\ Val(renewAllLog).attempts[i].owner_number = Some("687")
          /\ Val(renewAllLog).attempts[i].success

\* the configured entries of the last cycle whose client ended the cycle
\* with _logged_in = False
StaleEntries ==
    {i \in 1..Len(Val(data).accounts) :
        /\ Val(data).accounts[i].is_configured
        /\ Val(data).accounts[i].key \in DOMAIN apis
        /\ ~apis[Val(data).accounts[i].key].logged_in_internal}

\* C27: logged_in is true iff _logged_in is true for every client, and an
\* account whose client failed the probe and the login after it gets the
\* not-logged-in account info ({}) and no reservations.
Cex_C27 ==
    /\ \A a \in DOMAIN apis : apis[a].logged_in <=> apis[a].logged_in_internal
    /\ data # None =>
          \A i \in StaleEntries :
              /\ Val(data).accounts[i].balance_info = "empty"
              /\ Val(data).accounts[i].reservations = <<>>

\* the part that holds: a client with _logged_in set has logged_in set
InternalImpliesPublic ==
    \A a \in DOMAIN apis : apis[a].logged_in_internal => apis[a].logged_in

\* a cycle in which the probe and the login inside get_borrowed_media
\* failed for account 687: its client keeps logged_in = True, its entry has
\* the account info and the reservations fetched on the stale session
StaleSessionUsed ==
    /\ data # None /\ cycleLog # None /\ Val(cycleLog).faults[1] = "fetch_auth"
    /\ Acc687 \in DOMAIN apis
    /\ apis[Acc687].logged_in /\ ~apis[Acc687].logged_in_internal
    /\ \E i \in StaleEntries :
          /\ Val(data).accounts[i].key = Acc687
          /\ Val(data).accounts[i].borrowed_media = <<>>
          /\ Val(data).accounts[i].balance_info = "account_info"
          /\ Val(data).accounts[i].reservations # <<>>

\* the last service call named a configured account B and a loan that
\* self.data labels with account_id = B in the entry of another account A
LabelledFromFamilyPage ==
    /\ renewOneLog # None
    /\ Val(renewOneLog).account_id # None
    /\ \E l \in Val(renewOneLog).labels :
          /\ l.account_id = Val(renewOneLog).account_id
          /\ l.entry # Val(l.account_id)
          /\ \E i \in 1..Len(accounts) : accounts[i].id = l.entry

\* C28: renew(media_id, account_id = B) for a loan the cycle labels with
\* account_id = B under B's header on A's family page passes the ownership
\* check.
Cex_C28 ==
    LabelledFromFamilyPage =>
        Val(renewOneLog).result.message # "Medium gehoert nicht zu Konto"

\* the part that holds: a loan is not refused for the account whose entry
\* is the first to hold it
FirstEntryPasses ==
    (/\ renewOneLog # None
     /\ Val(renewOneLog).account_id # None
     /\ data # None
     /\ Val(renewOneLog).labels = LabelsOf(Val(data), Val(renewOneLog).media_id)
     /\ \E e \in 1..Len(Val(data).accounts) :
           /\ Val(data).accounts[e].key = Val(Val(renewOneLog).account_id)
           /\ Having(Val(data).accounts[e].borrowed_media, Val(renewOneLog).media_id) # {}
           /\ \A d \in 1..(e - 1) :
                 Having(Val(data).accounts[d].borrowed_media,
                        Val(renewOneLog).media_id) = {})
    => Val(renewOneLog).result.message # "Medium gehoert nicht zu Konto"

\* renew(2, boehl_689) is refused: loan 2 of reader 689 is labelled
\* boehl_689 in the entry of boehl_687, which is searched first
OwnerRefused ==
    /\ LabelledFromFamilyPage
    /\ Val(renewOneLog).media_id = 2
    /\ Val(renewOneLog).account_id = Some(Acc689)
    /\ [entry |-> Acc687, account_id |-> Some(Acc689)] \in Val(renewOneLog).labels
    /\ [entry |-> Acc689, account_id |-> Some(Acc689)] \in Val(renewOneLog).labels
    /\ Val(renewOneLog).result.message = "Medium gehoert nicht zu Konto"
    /\ Val(renewOneLog).requests = <<>>

\* renew(2, boehl_687) passes the check although loan 2 is labelled
\* boehl_689
KeyHolderPasses ==
    /\ renewOneLog # None
    /\ Val(renewOneLog).media_id = 2
    /\ Val(renewOneLog).account_id = Some(Acc687)
    /\ \A l \in Val(renewOneLog).labels : l.account_id = Some(Acc689)
    /\ Val(renewOneLog).labels # {}
    /\ Val(renewOneLog).result.message \notin EarlyReturns

\* the daily renewal date check ran in the last cycle
CheckedInLastCycle ==
    /\ cycleLog # None /\ data # None
    /\ last_renewal_date_fetch = Some(Val(cycleLog).at)

\* the loans the last cycle left without renewal date although they have
\* no renew action and a parsed due date, by position in all_media
LeftWithoutDate ==
    {i \in 1..Len(Val(data).all_media) :
        /\ ~Val(data).all_media[i].renewable
        /\ Val(data).all_media[i].due_date_iso # None
        /\ Val(data).all_media[i].renewal_date_iso = None}

\* the last cycle got as far as renew_media of a client for the media id:
\* the site or the browser was asked for its renewal date
AskedFor(media_id) ==
    \E k \in 1..Len(Val(cycleLog).calls) :
        /\ Val(cycleLog).calls[k].media_id = media_id
        /\ ~Val(cycleLog).calls[k].raised
        /\ Val(cycleLog).calls[k].result.message \notin EarlyReturns

\* C29: a cycle that runs the daily check leaves a loan with no renew
\* action and a parsable due date without renewal_date_iso only when the
\* site, asked for the loan in this cycle, gave no date; also in the first
\* cycle and for loans first seen in the cycle.
Cex_C29 ==
    CheckedInLastCycle =>
        \A i \in LeftWithoutDate : AskedFor(Val(data).all_media[i].media_id)

\* the first cycle: the check read self.data, which is None, for loan 2
\* and the loan is left without a date
FirstCycleRaises ==
    /\ CheckedInLastCycle
    /\ Val(cycleLog).at = 24 * FirstDay
    /\ \E i \in LeftWithoutDate : Val(data).all_media[i].media_id = 2
    /\ \E k \in 1..Len(Val(cycleLog).calls) :
          /\ Val(cycleLog).calls[k].media_id = 2
          /\ Val(cycleLog).calls[k].raised
          /\ Val(cycleLog).calls[k].requests = <<>>

\* a later cycle: a loan that the cycle before did not list is looked up
\* in the output of that cycle and not found
NewLoanNotFound ==
    /\ CheckedInLastCycle
    /\ Val(cycleLog).at > 24 * FirstDay
    /\ \E i \in LeftWithoutDate :
          \E k \in 1..Len(Val(cycleLog).calls) :
              /\ Val(cycleLog).calls[k].media_id = Val(data).all_media[i].media_id
              /\ ~Val(cycleLog).calls[k].raised
              /\ Val(cycleLog).calls[k].result.message = "Medium nicht gefunden"
              /\ Val(cycleLog).calls[k].requests = <<>>

\* a later cycle attaches the date to a loan the cycle before listed
DateAttachedLater ==
    /\ CheckedInLastCycle
    /\ Val(cycleLog).at > 24 * FirstDay
    /\ \E i \in 1..Len(Val(data).all_media) :
          /\ ~Val(data).all_media[i].renewable
          /\ \E k \in 1..Len(Val(cycleLog).calls) :
                /\ Val(cycleLog).calls[k].media_id = Val(data).all_media[i].media_id
                /\ Val(cycleLog).calls[k].result.renewal_date_iso # None
                /\ Val(data).all_media[i].renewal_date_iso
                       = Val(cycleLog).calls[k].result.renewal_date_iso

\* the last cycle met no fault, so every enabled account authenticated and
\* every request of get_reserved_media was answered
CycleWithoutFault ==
    /\ cycleLog # None /\ data # None
    /\ \A i \in 1..Len(accounts) : Val(cycleLog).faults[i] = "none"

\* the reservation ids the account page of the account shows
OnOwnMainPage(account_id) ==
    {r.reservation_id :
        r \in Elems(PageReservations(reservationPages[account_id].main))}

\* the reservation ids in the entry of the account in the cycle's output
ListedFor(account_id) ==
    UNION {{r.reservation_id : r \in Elems(Val(data).accounts[e].reservations)} :
              e \in {d \in 1..Len(Val(data).accounts) :
                        Val(data).accounts[d].key = account_id}}

\* C30: after a cycle the reservations list of every enabled account that
\* authenticated contains the reservations its own main page shows.
Cex_C30 ==
    (CycleWithoutFault /\ reservationPages # NoPages) =>
        \A i \in 1..Len(accounts) :
            accounts[i].enabled =>
                OnOwnMainPage(accounts[i].id) \subseteq ListedFor(accounts[i].id)

\* the part that holds: the first enabled account of the cycle has the
\* reservations of its own main page
FirstAccountComplete ==
    (CycleWithoutFault /\ reservationPages # NoPages) =>
        OnOwnMainPage(accounts[1].id) \subseteq ListedFor(accounts[1].id)

\* reader 689 is no member of the family of 687: reservation 12 stands on
\* the account page of 689, which no cycle requests, and the entry of
\* boehl_689 has no reservation
SecondAccountMissed ==
    /\ CycleWithoutFault /\ reservationPages # NoPages
    /\ accounts[2].enabled
    /\ Val(cycleLog).reservation_fetches = 1
    /\ OnOwnMainPage(Acc689) = {12}
    /\ ListedFor(Acc689) = {}
    /\ \E e \in 1..Len(Val(data).accounts) : Val(data).accounts[e].key = Acc689

\* one family: the second account gets its reservation from the family
\* page of the first
SecondAccountFromFamilyPage ==
    /\ CycleWithoutFault /\ reservationPages # NoPages
    /\ accounts[2].enabled
    /\ OnOwnMainPage(Acc689) = {12}
    /\ ListedFor(Acc689) = {12}
    /\ ListedFor(Acc687) = {11}

====
